---- MODULE Spec2Model ----
(***************************************************************************)
(* Entity Resolution & Annotation Engine of sherlock-backend.              *)
(*                                                                         *)
(* Strings are sequences of one-character strings.  Offsets are Python's:  *)
(* 0-based, half-open [start, end).                                        *)
(***************************************************************************)
EXTENDS Integers, Sequences, FiniteSets, TLC

VARIABLES
    pc,            \* which operation the request is at
    texto,         \* annotator: texto_original
    matches,       \* annotator: {"vehiculos","personas","ubicaciones"} -> list of Match
    candidatas,    \* annotator: the candidate markers built before overlap resolution
    marcas,        \* annotator: the markers returned by _construir_marcas
    enriquecido,   \* annotator: AnnotationResult.texto_enriquecido
    explicacion,   \* annotator: AnnotationResult.explicacion_db (the list of sections)
    metadata,      \* annotator: AnnotationResult.metadata
    clase,         \* matcher: the key of the request ("vehiculos", "personas", "ubicaciones")
    entidades,     \* matcher: the list of entities under that key
    fallos,        \* matcher: per entity, the gateway query that raises ("ninguno": none)
    resultados,    \* matcher: the list of Match returned for the entities
    estado,        \* matcher: the state of the resolution of one entity
    consultas,     \* matcher: the lookup stages that queried the gateway, in order
    respuesta,     \* orchestrator: the HTTP response of /api/v1/enrich
    almacen,       \* gateway: the contents of the reference store, table by table
    ahora,         \* explainer: the day datetime.now() falls on
    informes,      \* explainer: the invocations made so far, each with its result
    args,          \* a function called on its own: its arguments
    retorno        \* a function called on its own: what it returned

varsAnot == <<texto, matches, candidatas, marcas, enriquecido, explicacion, metadata>>
varsMatch == <<clase, entidades, fallos, resultados, estado, consultas>>
vars == <<pc, texto, matches, candidatas, marcas, enriquecido, explicacion, metadata, clase, entidades, fallos, resultados,
          estado, consultas, respuesta, almacen, ahora, informes, args, retorno>>
varsExpl == <<almacen, ahora, informes>>
varsFn == <<args, retorno>>

(***************************************************************************)
(* Bounds                                                                  *)
(***************************************************************************)
MaxTextLen == 3
MaxMarcas == 2
MaxLote == 2

(***************************************************************************)
(* Python string and list primitives                                       *)
(***************************************************************************)
Min(a, b) == IF a <= b THEN a ELSE b
Max(a, b) == IF a >= b THEN a ELSE b

\* the largest member of a finite set of naturals, 0 for the empty set
MaxOf(S) == IF S = {} THEN 0 ELSE CHOOSE n \in S : \A k \in S : k <= n

\* s[i:j] for 0 <= i, 0 <= j (Python clamps both to len(s))
Slice(s, i, j) == SubSeq(s, Min(i, Len(s)) + 1, Min(j, Len(s)))

\* s[:j]
Prefix(s, j) == Slice(s, 0, j)

\* s[i:]
Suffix(s, i) == Slice(s, i, Len(s))

\* the letters; the accented letter i-acute is the character "i^"
Minusculas == <<"a", "b", "c", "f", "g", "i", "j", "l", "m", "n", "o", "r", "s", "t", "v", "w", "x", "y">>
Mayusculas == <<"A", "B", "C", "F", "G", "I", "J", "L", "M", "N", "O", "R", "S", "T", "V", "W", "X", "Y">>

\* the position of c in the list s, 0 when absent
IndiceDe(s, c) == IF \E i \in 1..Len(s) : s[i] = c THEN CHOOSE i \in 1..Len(s) : s[i] = c ELSE 0

\* str.lower() on one character
LowerChar(c) ==
    IF c = "I^" THEN "i^"
    ELSE IF IndiceDe(Mayusculas, c) # 0 THEN Minusculas[IndiceDe(Mayusculas, c)] ELSE c

\* str.lower()
Lower(s) == [i \in 1..Len(s) |-> LowerChar(s[i])]

\* str.find(sub, start): the lowest 0-based index >= start where sub occurs, or -1
Find(s, sub, start) ==
    LET hits == {p \in start..(Len(s) - Len(sub)) : Slice(s, p, p + Len(sub)) = sub}
    IN  IF hits = {} THEN -1 ELSE CHOOSE p \in hits : \A q \in hits : p <= q

\* reversed(list)
Reversed(s) == [i \in 1..Len(s) |-> s[Len(s) + 1 - i]]

\* list.remove(x): drops the first element equal to x
RECURSIVE RemoveFirst(_, _)
RemoveFirst(s, x) ==
    IF s = <<>> THEN <<>>
    ELSE IF Head(s) = x THEN Tail(s)
    ELSE <<Head(s)>> \o RemoveFirst(Tail(s), x)

\* insertion of the pair x = <<key, value>> into a list of pairs sorted by key,
\* after every pair whose key is <= x's
RECURSIVE InsertSorted(_, _)
InsertSorted(s, x) ==
    IF s = <<>> THEN <<x>>
    ELSE IF x[1] < Head(s)[1] THEN <<x>> \o s
    ELSE <<Head(s)>> \o InsertSorted(Tail(s), x)

\* sorted(pairs, key=first component): stable, ascending
RECURSIVE SortPairs(_)
SortPairs(s) ==
    IF s = <<>> THEN <<>>
    ELSE InsertSorted(SortPairs(SubSeq(s, 1, Len(s) - 1)), s[Len(s)])

\* the values of a list of <<key, value>> pairs
Values(s) == [i \in 1..Len(s) |-> s[i][2]]

(***************************************************************************)
(* Confidence values.  A confidence c in [0,1] is held as the integer      *)
(* c * 100 * LenLcm, so that every similarity ratio (max_len - d)/max_len  *)
(* of strings no longer than 6 characters and every weighted sum of such   *)
(* ratios with weights in hundredths is an exact integer.                  *)
(***************************************************************************)
LenLcm == 3 * 4 * 5

\* a value given in hundredths (0.95 is Pct(95))
Pct(n) == n * LenLcm

\* AnnotatorService.THRESHOLD_EXACTO = 0.95, THRESHOLD_PARCIAL = 0.70, in hundredths
THRESHOLD_EXACTO == 95
THRESHOLD_PARCIAL == 70

\* the keys of a request and of matches
Clases == {"vehiculos", "personas", "ubicaciones"}

\* the empty string
Vacia == <<>>

\* None (a db_record that is absent, a query without row)
Null == [none |-> TRUE]

(***************************************************************************)
(* AnnotatorService                                                        *)
(***************************************************************************)
Marca(start, end, tipo, txt) == [start |-> start, end |-> end, tipo |-> tipo, texto |-> txt]

\* the loop of _buscar_texto_en_original from offset `start` on
RECURSIVE BuscarDesde(_, _, _, _)
BuscarDesde(texto_lower, buscar_lower, n, start) ==
    LET pos == Find(texto_lower, buscar_lower, start)
    IN  IF pos = -1 THEN <<>>
        ELSE <<<<pos, pos + n>>>> \o BuscarDesde(texto_lower, buscar_lower, n, pos + 1)

\* _buscar_texto_en_original with the search key cut to its first character
BuscarPorPrimerCaracter(txt, buscar) ==
    BuscarDesde(Lower(txt), Prefix(Lower(buscar), 1), Len(buscar), 0)

\* _buscar_texto_en_original(texto, buscar): every (pos, pos + len(buscar)),
\* pos found case-insensitively, the search resuming at pos + 1
BuscarTextoEnOriginal(txt, buscar) ==
    BuscarDesde(Lower(txt), Lower(buscar), Len(buscar), 0)

\* "if faceta: for start, end in posiciones: marcas.append((start, end, tipo, faceta))"
MarcasDeFaceta(txt, faceta, tipo) ==
    IF faceta = <<>> THEN <<>>
    ELSE LET pos == BuscarTextoEnOriginal(txt, faceta)
         IN  [i \in 1..Len(pos) |-> Marca(pos[i][1], pos[i][2], tipo, faceta)]

\* the eligibility test with the threshold above the Matcher's partial threshold
MarcableUmbralAlto(m) ==
    /\ m.match_type \in {"EXACTO", "PARCIAL"}
    /\ m.confidence >= Pct(90)

\* the eligibility test of _construir_marcas
Marcable(m) ==
    /\ m.match_type \in {"EXACTO", "PARCIAL"}
    /\ m.confidence >= Pct(THRESHOLD_PARCIAL)

TipoMarca(m) == IF m.confidence >= Pct(THRESHOLD_EXACTO) THEN "@" ELSE "**"

\* the vehiculos loop with the brand and the model marked at any accepted confidence
MarcasVehiculoSecundariasSiempre(txt, m) ==
    IF ~Marcable(m) THEN <<>>
    ELSE LET e == m.entidad_original
         IN  MarcasDeFaceta(txt, e.matricula, TipoMarca(m))
             \o MarcasDeFaceta(txt, e.marca, "@")
             \o MarcasDeFaceta(txt, e.modelo, "@")

\* the body of the vehiculos loop of _construir_marcas
MarcasVehiculo(txt, m) ==
    IF ~Marcable(m) THEN <<>>
    ELSE LET e == m.entidad_original
             exacto == m.confidence >= Pct(THRESHOLD_EXACTO)
         IN  MarcasDeFaceta(txt, e.matricula, TipoMarca(m))
             \o (IF exacto THEN MarcasDeFaceta(txt, e.marca, "@") ELSE <<>>)
             \o (IF exacto THEN MarcasDeFaceta(txt, e.modelo, "@") ELSE <<>>)

\* the body of the personas loop of _construir_marcas
MarcasPersona(txt, m) ==
    IF ~Marcable(m) THEN <<>>
    ELSE LET e == m.entidad_original
         IN  MarcasDeFaceta(txt, e.dni, TipoMarca(m))
             \o MarcasDeFaceta(txt, e.nombre, TipoMarca(m))
             \o MarcasDeFaceta(txt, e.apellidos, TipoMarca(m))

\* the body of the ubicaciones loop of _construir_marcas
MarcasUbicacion(txt, m) ==
    IF ~Marcable(m) THEN <<>>
    ELSE LET e == m.entidad_original
         IN  IF e.texto_completo # <<>>
             THEN MarcasDeFaceta(txt, e.texto_completo, TipoMarca(m))
             ELSE MarcasDeFaceta(txt, e.nombre_via, TipoMarca(m))

RECURSIVE MarcasDeLista(_, _, _)
MarcasDeLista(txt, ms, cl) ==
    IF ms = <<>> THEN <<>>
    ELSE (CASE cl = "vehiculos" -> MarcasVehiculo(txt, Head(ms))
            [] cl = "personas" -> MarcasPersona(txt, Head(ms))
            [] OTHER -> MarcasUbicacion(txt, Head(ms)))
         \o MarcasDeLista(txt, Tail(ms), cl)

\* the list `marcas` of _construir_marcas before _resolver_solapamientos
MarcasCandidatas(txt, mm) ==
    MarcasDeLista(txt, mm.vehiculos, "vehiculos")
    \o MarcasDeLista(txt, mm.personas, "personas")
    \o MarcasDeLista(txt, mm.ubicaciones, "ubicaciones")

\* "not (end <= r_start or start >= r_end)"
Solapan(a, b) == ~(a.end <= b.start \/ a.start >= b.end)

Longitud(m) == m.end - m.start

\* the inner loop of _resolver_solapamientos over resultado[i..], for candidate marca
RECURSIVE Escanear(_, _, _)
Escanear(resultado, i, marca) ==
    IF i > Len(resultado) THEN [solapa |-> FALSE, resultado |-> resultado]
    ELSE LET r == resultado[i]
         IN  IF Solapan(marca, r)
             THEN IF r.tipo = "@" /\ marca.tipo = "**"
                  THEN [solapa |-> TRUE, resultado |-> resultado]
                  ELSE IF marca.tipo = "@" /\ r.tipo = "**"
                  THEN [solapa |-> FALSE, resultado |-> RemoveFirst(resultado, r)]
                  ELSE IF Longitud(marca) > Longitud(r)
                  THEN [solapa |-> TRUE, resultado |-> resultado]
                  ELSE Escanear(resultado, i + 1, marca)
             ELSE Escanear(resultado, i + 1, marca)

\* one iteration of the outer loop of _resolver_solapamientos
Aceptar(resultado, marca) ==
    LET r == Escanear(resultado, 1, marca)
    IN  IF r.solapa THEN r.resultado ELSE Append(r.resultado, marca)

RECURSIVE Plegar(_, _)
Plegar(resultado, ordenadas) ==
    IF ordenadas = <<>> THEN resultado
    ELSE Plegar(Aceptar(resultado, Head(ordenadas)), Tail(ordenadas))

\* sorted(marcas, key=lambda x: (x[0], x[1] - x[0]))
OrdenarPorInicioLongitud(ms) ==
    LET base == 1 + MaxOf({Longitud(ms[i]) : i \in 1..Len(ms)})
    IN  Values(SortPairs([i \in 1..Len(ms) |->
                             <<ms[i].start * base + Longitud(ms[i]), ms[i]>>]))

\* _resolver_solapamientos(marcas)
ResolverSolapamientos(ms) ==
    IF ms = <<>> THEN <<>> ELSE Plegar(<<>>, OrdenarPorInicioLongitud(ms))

\* marcas.sort(key=lambda x: x[0])
OrdenarPorInicio(ms) == Values(SortPairs([i \in 1..Len(ms) |-> <<ms[i].start, ms[i]>>]))

\* _construir_marcas(texto, matches)
ConstruirMarcas(txt, mm) == OrdenarPorInicio(ResolverSolapamientos(MarcasCandidatas(txt, mm)))

\* the loop body of _aplicar_marcas with the closing '**' forgotten
AplicarUnaSinCierre(txt, resultado, m) ==
    LET texto_marcado == Slice(txt, m.start, m.end)
        nuevo_texto == IF m.tipo = "@" THEN <<"@">> \o texto_marcado
                       ELSE <<"*", "*">> \o texto_marcado
    IN  Prefix(resultado, m.start) \o nuevo_texto \o Suffix(resultado, m.end)

\* one iteration of the loop of _aplicar_marcas
AplicarUna(txt, resultado, m) ==
    LET texto_marcado == Slice(txt, m.start, m.end)
        nuevo_texto == IF m.tipo = "@" THEN <<"@">> \o texto_marcado
                       ELSE <<"*", "*">> \o texto_marcado \o <<"*", "*">>
    IN  Prefix(resultado, m.start) \o nuevo_texto \o Suffix(resultado, m.end)

RECURSIVE AplicarTodas(_, _, _)
AplicarTodas(txt, resultado, ms) ==
    IF ms = <<>> THEN resultado
    ELSE AplicarTodas(txt, AplicarUna(txt, resultado, Head(ms)), Tail(ms))

\* _aplicar_marcas(texto, marcas)
AplicarMarcas(txt, ms) ==
    IF ms = <<>> THEN txt ELSE AplicarTodas(txt, txt, Reversed(ms))

(***************************************************************************)
(* Text normalisation of the matcher                                       *)
(***************************************************************************)
\* str.upper() on one character (Python: Unicode aware)
UpperChar(c) ==
    IF c = "i^" THEN "I^"
    ELSE IF IndiceDe(Minusculas, c) # 0 THEN Mayusculas[IndiceDe(Minusculas, c)] ELSE c

\* SQLite's UPPER() on one character (ASCII letters only)
SqlUpperChar(c) == IF IndiceDe(Minusculas, c) # 0 THEN Mayusculas[IndiceDe(Minusculas, c)] ELSE c

\* unidecode() on one character
UnidecodeChar(c) == IF c = "i^" THEN "i" ELSE IF c = "I^" THEN "I" ELSE c

Upper(s) == [i \in 1..Len(s) |-> UpperChar(s[i])]
SqlUpper(s) == [i \in 1..Len(s) |-> SqlUpperChar(s[i])]
Unidecode(s) == [i \in 1..Len(s) |-> UnidecodeChar(s[i])]

\* the whitespace characters (\s)
EsEspacio(c) == c = " "

\* str.strip()
RECURSIVE StripIzq(_)
StripIzq(s) == IF s # <<>> /\ EsEspacio(Head(s)) THEN StripIzq(Tail(s)) ELSE s

Strip(s) == Reversed(StripIzq(Reversed(StripIzq(s))))

\* re.sub(r'\s+', ' ', s)
RECURSIVE ColapsarEspacios(_)
ColapsarEspacios(s) ==
    IF s = <<>> THEN <<>>
    ELSE IF EsEspacio(Head(s))
         THEN <<" ">> \o ColapsarEspacios(StripIzq(s))
         ELSE <<Head(s)>> \o ColapsarEspacios(Tail(s))

\* _normalizar_matricula: re.sub(r'[\s\-]', '', matricula).upper()
NormalizarMatricula(s) == Upper(SelectSeq(s, LAMBDA c : ~EsEspacio(c) /\ c # "-"))

\* _normalizar_dni: re.sub(r'\s', '', dni).upper()
NormalizarDni(s) == Upper(SelectSeq(s, LAMBDA c : ~EsEspacio(c)))

\* _normalizar_texto: unidecode(texto).upper(), whitespace collapsed, stripped
NormalizarTexto(s) == Strip(ColapsarEspacios(Upper(Unidecode(s))))

\* SQL: UPPER(REPLACE(REPLACE(plate, ' ', ''), '-', ''))
SqlPlateNorm(s) == SqlUpper(SelectSeq(s, LAMBDA c : c # " " /\ c # "-"))

\* SQL: UPPER(REPLACE(dni, ' ', ''))
SqlDniNorm(s) == SqlUpper(SelectSeq(s, LAMBDA c : c # " "))

(***************************************************************************)
(* Similarity: levenshtein_distance and fuzz_ratio_basic                   *)
(***************************************************************************)
Min3(a, b, c) == Min(a, Min(b, c))

\* current_row of levenshtein_distance for character c1 at index i (0-based),
\* built from left to right: fila holds current_row[0..j]
RECURSIVE FilaActual(_, _, _, _, _)
FilaActual(previous_row, fila, c1, s2, j) ==
    IF j > Len(s2) THEN fila
    ELSE LET insertions == previous_row[j + 1] + 1
             deletions == fila[j] + 1
             substitutions == previous_row[j] + (IF c1 # s2[j] THEN 1 ELSE 0)
         IN  FilaActual(previous_row, Append(fila, Min3(insertions, deletions, substitutions)),
                        c1, s2, j + 1)

RECURSIVE FilasDesde(_, _, _, _)
FilasDesde(previous_row, s1, s2, i) ==
    IF i > Len(s1) THEN previous_row
    ELSE FilasDesde(FilaActual(previous_row, <<i>>, s1[i], s2, 1), s1, s2, i + 1)

\* levenshtein_distance(s1, s2)
LevenshteinDistance(a, b) ==
    LET s1 == IF Len(a) < Len(b) THEN b ELSE a
        s2 == IF Len(a) < Len(b) THEN a ELSE b
    IN  IF Len(s2) = 0 THEN Len(s1)
        ELSE LET ultima == FilasDesde([j \in 1..(Len(s2) + 1) |-> j - 1], s1, s2, 1)
             IN  ultima[Len(ultima)]

\* fuzz.ratio(s1, s2) / 100.0, in units of 1 / LenLcm
Similitud(s1, s2) ==
    IF s1 = <<>> \/ s2 = <<>> THEN 0
    ELSE LET max_len == Max(Len(s1), Len(s2))
         IN  ((max_len - LevenshteinDistance(Lower(s1), Lower(s2))) * LenLcm) \div max_len

(***************************************************************************)
(* The reference store (hermano_mayor.db), rows in rowid order              *)
(***************************************************************************)
TablaVehicles ==
    << [vehicle_id |-> 1, plate |-> <<"1", "2", "-", "A", "B", "C">>, brand |-> <<"V", "W">>,
        model |-> <<"G", "o", "l", "f">>, dni_titular |-> <<"1", "A">>],
       [vehicle_id |-> 2, plate |-> <<"3", "4", "X", "Y", "C">>, brand |-> <<"S", "i", "t">>,
        model |-> Vacia, dni_titular |-> Vacia] >>

TablaPersons ==
    << [dni |-> <<"1", "A">>, nombre |-> <<"J", "o", "a", "n">>,
        apellidos |-> <<"M", "a", "r", "t", "i^">>],
       [dni |-> <<"2", "B">>, nombre |-> <<"A", "n", "a">>,
        apellidos |-> <<"M", "a", "r", "t", "o", "s">>] >>

TablaLocations ==
    << [location_id |-> 1, street_type |-> <<"C">>, street_name |-> <<"M", "a", "y", "o", "r">>,
        number |-> <<"1">>],
       [location_id |-> 2, street_type |-> <<"A", "v">>, street_name |-> <<"R", "i", "b", "a", "s">>,
        number |-> <<"8">>],
       [location_id |-> 3, street_type |-> <<"P", "l">>, street_name |-> <<"r", "i", "b", "a", "s">>,
        number |-> <<"9">>] >>

TablaLocationAliases ==
    << [location_id |-> 2, alias_name |-> <<"C", "t", "r", "a", " ", "R", "i", "b", "a", "s">>] >>

\* entity_links: (entity_type, entity_id, source_event_id, created_at_ts)
TablaEntityLinks ==
    << [entity_type |-> "vehicle", entity_id |-> 1, source_event_id |-> "E1", created_at_ts |-> 10],
       [entity_type |-> "vehicle", entity_id |-> 1, source_event_id |-> "E2", created_at_ts |-> 20],
       [entity_type |-> "person", entity_id |-> <<"1", "A">>, source_event_id |-> "E1", created_at_ts |-> 10],
       [entity_type |-> "location", entity_id |-> 2, source_event_id |-> "E2", created_at_ts |-> 20] >>

\* vehicle_person_links: (vehicle_id, person_id, confidence in hundredths, relation_type)
TablaVehiclePersonLinks ==
    << [vehicle_id |-> 1, person_id |-> <<"2", "B">>, confidence |-> 80, relation_type |-> "conductor"],
       [vehicle_id |-> 1, person_id |-> <<"1", "A">>, confidence |-> 90, relation_type |-> "titular"] >>

\* person_roles: (dni, role, created_at)
TablaPersonRoles ==
    << [dni |-> <<"1", "A">>, role |-> "denunciant", created_at |-> 10],
       [dni |-> <<"1", "A">>, role |-> "testimoni", created_at |-> 20] >>

\* events_drag: (event_id, capitulo, fecha_evento)
TablaEventsDrag ==
    << [event_id |-> "E1", capitulo |-> "robos", fecha_evento |-> 10],
       [event_id |-> "E2", capitulo |-> "altercats", fecha_evento |-> 20] >>

\* the rows of a table that satisfy Cond, in table order
Filas(tabla, Cond(_)) == SelectSeq(tabla, Cond)

\* cursor.fetchone(): the first row or None
FetchOne(filas) == IF filas = <<>> THEN Null ELSE Head(filas)

\* ORDER BY key DESC: rows as <<key, row>> pairs
OrdenDesc(pares) == Values(SortPairs([i \in 1..Len(pares) |-> <<0 - pares[i][1], pares[i][2]>>]))

\* LIMIT n
Limit(filas, n) == SubSeq(filas, 1, Min(n, Len(filas)))

\* SELECT DISTINCT: the first occurrence of every value is kept
RECURSIVE Distinct(_)
Distinct(s) ==
    IF s = <<>> THEN <<>>
    ELSE LET resto == Distinct(SubSeq(s, 1, Len(s) - 1))
             x == s[Len(s)]
         IN  IF \E i \in 1..Len(resto) : resto[i] = x THEN resto ELSE Append(resto, x)

\* sub occurs in s (SQL LIKE '%sub%')
Contiene(s, sub) == \E p \in 0..(Len(s) - Len(sub)) : Slice(s, p, p + Len(sub)) = sub

(***************************************************************************)
(* Historical aggregates of the gateway                                    *)
(***************************************************************************)
\* _buscar_persona_by_dni(dni)
BuscarPersonaByDni(dni) ==
    LET dni_norm == NormalizarDni(dni)
    IN  FetchOne(Filas(TablaPersons, LAMBDA r : SqlDniNorm(r.dni) = dni_norm))

\* _get_persona_by_dni(dni)
GetPersonaByDni(dni) == BuscarPersonaByDni(dni)

\* SELECT COUNT(*) FROM entity_links WHERE entity_type = ? AND entity_id = ?
CountAppearances(tipo, id) ==
    Len(Filas(TablaEntityLinks, LAMBDA r : r.entity_type = tipo /\ r.entity_id = id))

\* _count_vehicle_appearances, _count_person_appearances, _count_location_appearances
CountVehicleAppearances(vehicle_id) == CountAppearances("vehicle", vehicle_id)
CountPersonAppearances(dni) == CountAppearances("person", dni)
CountLocationAppearances(location_id) == CountAppearances("location", location_id)

\* _get_vehicle_events(vehicle_id, limit=5)
GetVehicleEvents(vehicle_id) ==
    LET filas == Filas(TablaEntityLinks,
                       LAMBDA r : r.entity_type = "vehicle" /\ r.entity_id = vehicle_id)
        orden == OrdenDesc([i \in 1..Len(filas) |-> <<filas[i].created_at_ts, filas[i]>>])
    IN  [i \in 1..Min(5, Len(orden)) |-> orden[i].source_event_id]

\* _get_vehicle_drivers(vehicle_id)
GetVehicleDrivers(vehicle_id) ==
    LET filas == Filas(TablaVehiclePersonLinks,
                       LAMBDA r : r.vehicle_id = vehicle_id
                                  /\ \E k \in 1..Len(TablaPersons) : TablaPersons[k].dni = r.person_id)
        orden == Limit(OrdenDesc([i \in 1..Len(filas) |-> <<filas[i].confidence, filas[i]>>]), 3)
        persona(l) == FetchOne(Filas(TablaPersons, LAMBDA q : q.dni = l.person_id))
    IN  [i \in 1..Len(orden) |->
            [dni |-> persona(orden[i]).dni, nombre |-> persona(orden[i]).nombre,
             apellidos |-> persona(orden[i]).apellidos, confidence |-> orden[i].confidence,
             relation_type |-> orden[i].relation_type]]

\* _get_person_roles(dni, limit=5)
GetPersonRoles(dni) ==
    LET filas == Filas(TablaPersonRoles, LAMBDA r : r.dni = dni)
        orden == OrdenDesc([i \in 1..Len(filas) |-> <<filas[i].created_at, filas[i]>>])
    IN  Limit(Distinct([i \in 1..Len(orden) |-> orden[i].role]), 5)

\* _get_person_vehicles(dni)
GetPersonVehicles(dni) ==
    LET filas == Limit(Filas(TablaVehiclePersonLinks,
                       LAMBDA r : r.person_id = dni
                                  /\ \E k \in 1..Len(TablaVehicles) :
                                         TablaVehicles[k].vehicle_id = r.vehicle_id), 5)
        vehiculo(l) == FetchOne(Filas(TablaVehicles, LAMBDA v : v.vehicle_id = l.vehicle_id))
    IN  [i \in 1..Len(filas) |->
            [plate |-> vehiculo(filas[i]).plate, brand |-> vehiculo(filas[i]).brand,
             model |-> vehiculo(filas[i]).model, relation_type |-> filas[i].relation_type]]

\* _get_location_event_types(location_id, limit=5)
GetLocationEventTypes(location_id) ==
    LET enlaces == Filas(TablaEntityLinks,
                         LAMBDA r : r.entity_type = "location" /\ r.entity_id = location_id)
        eventos == Filas(TablaEventsDrag,
                         LAMBDA ev : \E k \in 1..Len(enlaces) : enlaces[k].source_event_id = ev.event_id)
        orden == OrdenDesc([i \in 1..Len(eventos) |-> <<eventos[i].fecha_evento, eventos[i]>>])
        capitulos == Limit(Distinct([i \in 1..Len(orden) |-> orden[i].capitulo]), 5)
    IN  SelectSeq(capitulos, LAMBDA c : c # "")

\* _get_location_aliases(location_id)
GetLocationAliases(location_id) ==
    LET filas == Filas(TablaLocationAliases, LAMBDA r : r.location_id = location_id)
    IN  [i \in 1..Len(filas) |-> filas[i].alias_name]

(***************************************************************************)
(* MatcherService: outcome of a call that may raise                        *)
(***************************************************************************)
\* the call raised: razon is the gateway query that failed
Lanza(razon) == [excepcion |-> TRUE, razon |-> razon, valor |-> Null]

\* the call returned valor
Devuelve(valor) == [excepcion |-> FALSE, razon |-> "", valor |-> valor]

Match(entidad, match_type, confidence, db_record, enrichment) ==
    [entidad_original |-> entidad, match_type |-> match_type, confidence |-> confidence,
     db_record |-> db_record, enrichment |-> enrichment]

\* the Match built when nothing was found
SinCoincidencia(entidad) == Match(entidad, "SIN_COINCIDENCIA", 0, Null, <<>>)

\* the Match built by the except branch of _match_vehiculos/_personas/_ubicaciones
MatchError(entidad, razon) == Match(entidad, "ERROR", 0, Null, [error |-> razon])

\* candidates.sort(key=lambda x: x[1], reverse=True); return candidates[:3]
Top3(candidates) ==
    Limit(OrdenDesc([i \in 1..Len(candidates) |-> <<candidates[i].confidence, candidates[i]>>]), 3)

(***************************************************************************)
(* Vehicles                                                                *)
(***************************************************************************)
\* _buscar_vehiculo_exacto(matricula_norm)
BuscarVehiculoExacto(matricula_norm) ==
    FetchOne(Filas(TablaVehicles, LAMBDA r : SqlPlateNorm(r.plate) = matricula_norm))

\* the weighted confidence with a missing brand or model counted as a full match
ConfianzaVehiculoAusenteCuenta(matricula_norm, marca, modelo, vehicle) ==
    LET sim_plate == Similitud(matricula_norm, NormalizarMatricula(vehicle.plate))
        sim_brand == IF marca # <<>> /\ vehicle.brand # <<>>
                     THEN Similitud(NormalizarTexto(marca), NormalizarTexto(vehicle.brand))
                     ELSE LenLcm
        sim_model == IF modelo # <<>> /\ vehicle.model # <<>>
                     THEN Similitud(NormalizarTexto(modelo), NormalizarTexto(vehicle.model))
                     ELSE LenLcm
    IN  (sim_plate * 70) + (sim_brand * 15) + (sim_model * 15)

\* the weighted confidence of one row in _buscar_vehiculo_fuzzy
ConfianzaVehiculo(matricula_norm, marca, modelo, vehicle) ==
    LET sim_plate == Similitud(matricula_norm, NormalizarMatricula(vehicle.plate))
        sim_brand == IF marca # <<>> /\ vehicle.brand # <<>>
                     THEN Similitud(NormalizarTexto(marca), NormalizarTexto(vehicle.brand))
                     ELSE 0
        sim_model == IF modelo # <<>> /\ vehicle.model # <<>>
                     THEN Similitud(NormalizarTexto(modelo), NormalizarTexto(vehicle.model))
                     ELSE 0
    IN  (sim_plate * 70) + (sim_brand * 15) + (sim_model * 15)

\* _buscar_vehiculo_fuzzy(matricula_norm, marca, modelo)
BuscarVehiculoFuzzy(matricula_norm, marca, modelo) ==
    LET todos == [i \in 1..Len(TablaVehicles) |->
                     [registro |-> TablaVehicles[i],
                      confidence |-> ConfianzaVehiculo(matricula_norm, marca, modelo, TablaVehicles[i])]]
    IN  Top3(SelectSeq(todos, LAMBDA c : c.confidence >= Pct(70)))

\* _build_vehiculo_match(entidad, db_record, match_type, confidence)
BuildVehiculoMatch(entidad, db_record, match_type, confidence, fallo) ==
    LET con_titular == db_record.dni_titular # <<>>
        con_id == db_record.vehicle_id # 0
        titular == GetPersonaByDni(db_record.dni_titular)
        e_titular == IF con_titular /\ titular # Null
                     THEN [titular |-> [dni |-> titular.dni, nombre |-> titular.nombre,
                                        apellidos |-> titular.apellidos]]
                     ELSE <<>>
        e_historico == IF con_id
                       THEN [apariciones_previas |-> CountVehicleAppearances(db_record.vehicle_id),
                             eventos_previos |-> GetVehicleEvents(db_record.vehicle_id),
                             conductores_habituales |-> GetVehicleDrivers(db_record.vehicle_id)]
                       ELSE <<>>
    IN  IF con_titular /\ fallo = "_get_persona_by_dni" THEN Lanza(fallo)
        ELSE IF con_id /\ fallo \in {"_count_vehicle_appearances", "_get_vehicle_events",
                                     "_get_vehicle_drivers"} THEN Lanza(fallo)
        ELSE Devuelve(Match(entidad, match_type, confidence, db_record, e_titular @@ e_historico))

\* _match_vehiculo_single accepting the best fuzzy candidate whatever its confidence
MatchVehiculoSingleSinUmbral(vehiculo, fallo) ==
    LET matricula == Strip(vehiculo.matricula)
        marca == Strip(vehiculo.marca)
        modelo == Strip(vehiculo.modelo)
        matricula_norm == NormalizarMatricula(matricula)
        exact_match == BuscarVehiculoExacto(matricula_norm)
        fuzzy_matches == BuscarVehiculoFuzzy(matricula_norm, marca, modelo)
    IN  IF matricula = <<>> THEN Devuelve(SinCoincidencia(vehiculo))
        ELSE IF fallo = "_buscar_vehiculo_exacto" THEN Lanza(fallo)
        ELSE IF exact_match # Null
             THEN BuildVehiculoMatch(vehiculo, exact_match, "EXACTO", Pct(100), fallo)
        ELSE IF fallo = "_buscar_vehiculo_fuzzy" THEN Lanza(fallo)
        ELSE IF fuzzy_matches # <<>>
             THEN BuildVehiculoMatch(vehiculo, fuzzy_matches[1].registro, "PARCIAL",
                                     fuzzy_matches[1].confidence, fallo)
        ELSE Devuelve(SinCoincidencia(vehiculo))

\* _match_vehiculo_single(vehiculo); fallo is the gateway query that raises
MatchVehiculoSingle(vehiculo, fallo) ==
    LET matricula == Strip(vehiculo.matricula)
        marca == Strip(vehiculo.marca)
        modelo == Strip(vehiculo.modelo)
        matricula_norm == NormalizarMatricula(matricula)
        exact_match == BuscarVehiculoExacto(matricula_norm)
        fuzzy_matches == BuscarVehiculoFuzzy(matricula_norm, marca, modelo)
    IN  IF matricula = <<>> THEN Devuelve(SinCoincidencia(vehiculo))
        ELSE IF fallo = "_buscar_vehiculo_exacto" THEN Lanza(fallo)
        ELSE IF exact_match # Null
             THEN BuildVehiculoMatch(vehiculo, exact_match, "EXACTO", Pct(100), fallo)
        ELSE IF fallo = "_buscar_vehiculo_fuzzy" THEN Lanza(fallo)
        ELSE IF fuzzy_matches # <<>> /\ fuzzy_matches[1].confidence >= Pct(85)
             THEN BuildVehiculoMatch(vehiculo, fuzzy_matches[1].registro, "PARCIAL",
                                     fuzzy_matches[1].confidence, fallo)
        ELSE Devuelve(SinCoincidencia(vehiculo))

\* the confidence of one row with the person weights exchanged
ConfianzaPersonaPesosCambiados(nombre, apellidos, person) ==
    LET sim_nombre == IF nombre # <<>> /\ person.nombre # <<>>
                      THEN Similitud(NormalizarTexto(nombre), NormalizarTexto(person.nombre))
                      ELSE 0
        sim_apellidos == IF apellidos # <<>> /\ person.apellidos # <<>>
                         THEN Similitud(NormalizarTexto(apellidos), NormalizarTexto(person.apellidos))
                         ELSE 0
    IN  (sim_nombre * 60) + (sim_apellidos * 40)

(***************************************************************************)
(* Persons                                                                 *)
(***************************************************************************)
\* the weighted confidence of one row in _buscar_persona_by_nombre
ConfianzaPersona(nombre, apellidos, person) ==
    LET sim_nombre == IF nombre # <<>> /\ person.nombre # <<>>
                      THEN Similitud(NormalizarTexto(nombre), NormalizarTexto(person.nombre))
                      ELSE 0
        sim_apellidos == IF apellidos # <<>> /\ person.apellidos # <<>>
                         THEN Similitud(NormalizarTexto(apellidos), NormalizarTexto(person.apellidos))
                         ELSE 0
    IN  (sim_nombre * 40) + (sim_apellidos * 60)

\* _buscar_persona_by_nombre(nombre, apellidos)
BuscarPersonaByNombre(nombre, apellidos) ==
    LET todos == [i \in 1..Len(TablaPersons) |->
                     [registro |-> TablaPersons[i],
                      confidence |-> ConfianzaPersona(nombre, apellidos, TablaPersons[i])]]
    IN  Top3(SelectSeq(todos, LAMBDA c : c.confidence >= Pct(70)))

\* _build_persona_match(entidad, db_record, match_type, confidence)
BuildPersonaMatch(entidad, db_record, match_type, confidence, fallo) ==
    LET con_dni == db_record.dni # <<>>
        e_historico == IF con_dni
                       THEN [apariciones_previas |-> CountPersonAppearances(db_record.dni),
                             roles_previos |-> GetPersonRoles(db_record.dni),
                             vehiculos_relacionados |-> GetPersonVehicles(db_record.dni)]
                       ELSE <<>>
    IN  IF con_dni /\ fallo \in {"_count_person_appearances", "_get_person_roles",
                                 "_get_person_vehicles"} THEN Lanza(fallo)
        ELSE Devuelve(Match(entidad, match_type, confidence, db_record, e_historico))

\* _match_persona_single(persona); fallo is the gateway query that raises
MatchPersonaSingle(persona, fallo) ==
    LET dni == Strip(persona.dni)
        nombre == Strip(persona.nombre)
        apellidos == Strip(persona.apellidos)
        exact_match == BuscarPersonaByDni(dni)
        fuzzy_matches == BuscarPersonaByNombre(nombre, apellidos)
        por_nombre ==
            IF nombre = <<>> /\ apellidos = <<>> THEN Devuelve(SinCoincidencia(persona))
            ELSE IF fallo = "_buscar_persona_by_nombre" THEN Lanza(fallo)
            ELSE IF fuzzy_matches # <<>> /\ fuzzy_matches[1].confidence >= Pct(85)
                 THEN BuildPersonaMatch(persona, fuzzy_matches[1].registro, "PARCIAL",
                                        fuzzy_matches[1].confidence, fallo)
            ELSE Devuelve(SinCoincidencia(persona))
    IN  IF dni = <<>> THEN por_nombre
        ELSE IF fallo = "_buscar_persona_by_dni" THEN Lanza(fallo)
        ELSE IF exact_match # Null
             THEN BuildPersonaMatch(persona, exact_match, "EXACTO", Pct(100), fallo)
        ELSE por_nombre

(***************************************************************************)
(* Locations                                                               *)
(***************************************************************************)
\* the exact lookup with the number never compared
BuscarUbicacionExactaSinNumero(tipo_via, nombre_via, numero) ==
    FetchOne(Filas(TablaLocations, LAMBDA r :
        /\ tipo_via # <<>> => SqlUpper(r.street_type) = Upper(tipo_via)
        /\ nombre_via # <<>> => SqlUpper(r.street_name) = Upper(nombre_via)))

\* _buscar_ubicacion_exacta(tipo_via, nombre_via, numero)
BuscarUbicacionExacta(tipo_via, nombre_via, numero) ==
    FetchOne(Filas(TablaLocations, LAMBDA r :
        /\ tipo_via # <<>> => SqlUpper(r.street_type) = Upper(tipo_via)
        /\ nombre_via # <<>> => SqlUpper(r.street_name) = Upper(nombre_via)
        /\ numero # <<>> => r.number = numero))

\* _buscar_ubicacion_alias(nombre_via, numero)
BuscarUbicacionAlias(nombre_via, numero) ==
    LET alias == Filas(TablaLocationAliases, LAMBDA a :
                     /\ Contiene(SqlUpper(SqlUpper(a.alias_name)), SqlUpper(Upper(nombre_via)))
                     /\ \E k \in 1..Len(TablaLocations) :
                            TablaLocations[k].location_id = a.location_id)
    IN  IF alias = <<>> THEN Null
        ELSE FetchOne(Filas(TablaLocations, LAMBDA r : r.location_id = Head(alias).location_id))

\* the confidence of one row in _buscar_ubicacion_fuzzy, before min(confidence, 1.0)
ConfianzaUbicacion(nombre_via, numero, location) ==
    LET sim_name == Similitud(NormalizarTexto(nombre_via), NormalizarTexto(location.street_name))
        bonus_numero == IF numero # <<>> /\ location.number = numero THEN Pct(10) ELSE 0
    IN  (sim_name * 100) + bonus_numero

\* _buscar_ubicacion_fuzzy(tipo_via, nombre_via, numero)
BuscarUbicacionFuzzy(tipo_via, nombre_via, numero) ==
    LET todos == [i \in 1..Len(TablaLocations) |->
                     [registro |-> TablaLocations[i],
                      confidence |-> ConfianzaUbicacion(nombre_via, numero, TablaLocations[i])]]
        candidates == SelectSeq(todos, LAMBDA c : c.confidence >= Pct(70))
    IN  Top3([i \in 1..Len(candidates) |->
                 [registro |-> candidates[i].registro,
                  confidence |-> Min(candidates[i].confidence, Pct(100))]])

\* _build_ubicacion_match(entidad, db_record, match_type, confidence)
BuildUbicacionMatch(entidad, db_record, match_type, confidence, fallo) ==
    LET con_id == db_record.location_id # 0
        e_historico == IF con_id
                       THEN [apariciones_previas |-> CountLocationAppearances(db_record.location_id),
                             eventos_recurrentes |-> GetLocationEventTypes(db_record.location_id),
                             alias |-> GetLocationAliases(db_record.location_id)]
                       ELSE <<>>
    IN  IF con_id /\ fallo \in {"_count_location_appearances", "_get_location_event_types",
                                "_get_location_aliases"} THEN Lanza(fallo)
        ELSE Devuelve(Match(entidad, match_type, confidence, db_record, e_historico))

\* _match_ubicacion_single with the alias lookup consulted before the exact lookup
MatchUbicacionSingleAliasPrimero(ubicacion, fallo) ==
    LET tipo_via == Strip(ubicacion.tipo_via)
        nombre_via == Strip(ubicacion.nombre_via)
        numero == Strip(ubicacion.numero)
        exact_match == BuscarUbicacionExacta(tipo_via, nombre_via, numero)
        alias_match == BuscarUbicacionAlias(nombre_via, numero)
        fuzzy_matches == BuscarUbicacionFuzzy(tipo_via, nombre_via, numero)
    IN  IF nombre_via = <<>> THEN Devuelve(SinCoincidencia(ubicacion))
        ELSE IF fallo = "_buscar_ubicacion_alias" THEN Lanza(fallo)
        ELSE IF alias_match # Null
             THEN BuildUbicacionMatch(ubicacion, alias_match, "EXACTO", Pct(95), fallo)
        ELSE IF fallo = "_buscar_ubicacion_exacta" THEN Lanza(fallo)
        ELSE IF exact_match # Null
             THEN BuildUbicacionMatch(ubicacion, exact_match, "EXACTO", Pct(100), fallo)
        ELSE IF fallo = "_buscar_ubicacion_fuzzy" THEN Lanza(fallo)
        ELSE IF fuzzy_matches # <<>> /\ fuzzy_matches[1].confidence >= Pct(85)
             THEN BuildUbicacionMatch(ubicacion, fuzzy_matches[1].registro, "PARCIAL",
                                      fuzzy_matches[1].confidence, fallo)
        ELSE Devuelve(SinCoincidencia(ubicacion))

\* _match_ubicacion_single(ubicacion); fallo is the gateway query that raises
MatchUbicacionSingle(ubicacion, fallo) ==
    LET tipo_via == Strip(ubicacion.tipo_via)
        nombre_via == Strip(ubicacion.nombre_via)
        numero == Strip(ubicacion.numero)
        exact_match == BuscarUbicacionExacta(tipo_via, nombre_via, numero)
        alias_match == BuscarUbicacionAlias(nombre_via, numero)
        fuzzy_matches == BuscarUbicacionFuzzy(tipo_via, nombre_via, numero)
    IN  IF nombre_via = <<>> THEN Devuelve(SinCoincidencia(ubicacion))
        ELSE IF fallo = "_buscar_ubicacion_exacta" THEN Lanza(fallo)
        ELSE IF exact_match # Null
             THEN BuildUbicacionMatch(ubicacion, exact_match, "EXACTO", Pct(100), fallo)
        ELSE IF fallo = "_buscar_ubicacion_alias" THEN Lanza(fallo)
        ELSE IF alias_match # Null
             THEN BuildUbicacionMatch(ubicacion, alias_match, "EXACTO", Pct(95), fallo)
        ELSE IF fallo = "_buscar_ubicacion_fuzzy" THEN Lanza(fallo)
        ELSE IF fuzzy_matches # <<>> /\ fuzzy_matches[1].confidence >= Pct(85)
             THEN BuildUbicacionMatch(ubicacion, fuzzy_matches[1].registro, "PARCIAL",
                                      fuzzy_matches[1].confidence, fallo)
        ELSE Devuelve(SinCoincidencia(ubicacion))

(***************************************************************************)
(* Inputs of the matcher                                                   *)
(***************************************************************************)
VehiculosEnt ==
    { [matricula |-> <<" ", "1", "2", "a", "b", "c">>, marca |-> <<"S", "i", "t">>, modelo |-> Vacia],
      [matricula |-> <<" ">>, marca |-> <<"V", "W">>, modelo |-> <<"G", "o", "l", "f">>],
      [matricula |-> <<"1", "2", "A", "B", "X">>, marca |-> <<"v", "w">>, modelo |-> <<"G", "o", "l", "f">>],
      [matricula |-> <<"1", "2", "A", "B", "X">>, marca |-> <<"V", "W">>, modelo |-> Vacia],
      [matricula |-> <<"1", "2", "A", "B", "X">>, marca |-> Vacia, modelo |-> Vacia] }

PersonasEnt ==
    { [dni |-> <<"1", "a", " ">>, nombre |-> <<"A", "n", "a">>, apellidos |-> Vacia],
      [dni |-> Vacia, nombre |-> <<"J", "o", "a", "n">>, apellidos |-> <<"M", "a", "r", "t", "i">>],
      [dni |-> <<"9", "X">>, nombre |-> <<"J", "o", "a", "n">>, apellidos |-> <<"M", "a", "r", "t", "o">>],
      [dni |-> Vacia, nombre |-> <<"J", "o", "a", "n">>, apellidos |-> <<"M", "i", "r", "o", "s">>],
      [dni |-> Vacia, nombre |-> Vacia, apellidos |-> Vacia] }

UbicacionesEnt ==
    { [texto_completo |-> Vacia, tipo_via |-> <<"c">>, nombre_via |-> <<"m", "a", "y", "o", "r">>,
       numero |-> <<"1">>],
      [texto_completo |-> Vacia, tipo_via |-> Vacia, nombre_via |-> <<"M", "a", "y", "o", "r">>,
       numero |-> <<"2">>],
      [texto_completo |-> Vacia, tipo_via |-> <<"C">>, nombre_via |-> <<"R", "i", "b", "a", "s">>,
       numero |-> <<"8">>],
      [texto_completo |-> Vacia, tipo_via |-> Vacia, nombre_via |-> <<"R", "i", "b", "a", "s">>,
       numero |-> Vacia],
      [texto_completo |-> Vacia, tipo_via |-> Vacia, nombre_via |-> <<"M", "a", "y", "a", "r">>,
       numero |-> <<"1">>],
      [texto_completo |-> <<"x">>, tipo_via |-> <<"C">>, nombre_via |-> <<" ">>, numero |-> <<"1">>] }

EntidadesDe(cl) ==
    CASE cl = "vehiculos" -> VehiculosEnt
      [] cl = "personas" -> PersonasEnt
      [] OTHER -> UbicacionesEnt

\* the gateway queries a resolution of the class can issue
ConsultasDe(cl) ==
    CASE cl = "vehiculos" ->
            {"_buscar_vehiculo_exacto", "_buscar_vehiculo_fuzzy", "_get_persona_by_dni",
             "_count_vehicle_appearances", "_get_vehicle_events", "_get_vehicle_drivers"}
      [] cl = "personas" ->
            {"_buscar_persona_by_dni", "_buscar_persona_by_nombre", "_count_person_appearances",
             "_get_person_roles", "_get_person_vehicles"}
      [] OTHER ->
            {"_buscar_ubicacion_exacta", "_buscar_ubicacion_alias", "_buscar_ubicacion_fuzzy",
             "_count_location_appearances", "_get_location_event_types", "_get_location_aliases"}

\* the historical-aggregate queries among them
ConsultasHistorico ==
    {"_get_persona_by_dni", "_count_vehicle_appearances", "_get_vehicle_events",
     "_get_vehicle_drivers", "_count_person_appearances", "_get_person_roles",
     "_get_person_vehicles", "_count_location_appearances", "_get_location_event_types",
     "_get_location_aliases"}

SinFallo == "ninguno"

FallosDe(cl) == {SinFallo} \cup ConsultasDe(cl)

(***************************************************************************)
(* Batches                                                                 *)
(***************************************************************************)
\* _match_<clase>_single
MatchSingle(cl, entidad, fallo) ==
    CASE cl = "vehiculos" -> MatchVehiculoSingle(entidad, fallo)
      [] cl = "personas" -> MatchPersonaSingle(entidad, fallo)
      [] OTHER -> MatchUbicacionSingle(entidad, fallo)

\* MatchSingle tabulated over the inputs of the model: the store is only read, so
\* the outcome is a function of the entity and of the query that raises
Resolucion ==
    [cl \in Clases |-> [e \in EntidadesDe(cl) |-> [f \in FallosDe(cl) |-> MatchSingle(cl, e, f)]]]

\* the loop body with the failed entity skipped instead of reported
ProcesarEntidadOmiteError(results, cl, entidad, fallo) ==
    LET r == Resolucion[cl][entidad][fallo]
    IN  IF r.excepcion THEN results ELSE Append(results, r.valor)

\* the body of the for loop of _match_vehiculos, _match_personas, _match_ubicaciones:
\* try: results.append(match) / except Exception: results.append(<ERROR match>)
ProcesarEntidad(results, cl, entidad, fallo) ==
    LET r == Resolucion[cl][entidad][fallo]
    IN  IF r.excepcion THEN Append(results, MatchError(entidad, r.razon))
        ELSE Append(results, r.valor)

\* _match_vehiculos, _match_personas, _match_ubicaciones
RECURSIVE MatchLote(_, _, _, _)
MatchLote(results, cl, ents, fs) ==
    IF ents = <<>> THEN results
    ELSE MatchLote(ProcesarEntidad(results, cl, Head(ents), Head(fs)), cl, Tail(ents), Tail(fs))

(***************************************************************************)
(* AnnotatorService: explanation and metadata.  A line of the explanation  *)
(* is held as the name of its fixed template (clave) and the data the      *)
(* template is filled with (valor); a section is the list of its lines and *)
(* the explanation the list `secciones` that is joined with newlines.      *)
(***************************************************************************)
\* dict.get(k, def)
Get(d, k, def) == IF k \in DOMAIN d THEN d[k] ELSE def

\* "if db_record:" (None and {} are false)
Presente(d) == d # Null /\ d # <<>>

\* str.rstrip()
StripDer(s) == Reversed(StripIzq(Reversed(s)))

\* f"{a} {b}"
ConEspacio(a, b) == a \o <<" ">> \o b

\* f"{c*100:.0f}" of a confidence: the nearest integer, halves to the even one
PorCiento(c) ==
    LET q == c \div LenLcm
        r == c % LenLcm
    IN  IF 2 * r > LenLcm \/ (2 * r = LenLcm /\ q % 2 = 1) THEN q + 1 ELSE q

Linea(clave, valor) == [clave |-> clave, valor |-> valor]

\* the match-type line shared by the three _explicar_* methods
LineaTipo(m) ==
    IF m.match_type = "EXACTO" THEN <<Linea("Coincidencia EXACTA", <<>>)>>
    ELSE IF m.match_type = "PARCIAL"
    THEN <<Linea("Coincidencia PARCIAL", PorCiento(m.confidence))>>
    ELSE <<>>

\* _explicar_vehiculo(match)
ExplicarVehiculo(m) ==
    LET e == m.entidad_original
        db_record == m.db_record
        enrichment == m.enrichment
        matricula == Get(e, "matricula", <<"D", "E", "S", "C", "O", "N", "E", "G", "U", "D", "A">>)
        marca == Get(db_record, "brand", Vacia)
        modelo == Get(db_record, "model", Vacia)
        titular == Get(enrichment, "titular", <<>>)
        conductores == Get(enrichment, "conductores_habituales", <<>>)
        apariciones == Get(enrichment, "apariciones_previas", 0)
        eventos == Get(enrichment, "eventos_previos", <<>>)
    IN  <<Linea("VEHICLE MATRICULA", matricula)>>
        \o LineaTipo(m)
        \o (IF Presente(db_record) /\ (marca # Vacia \/ modelo # Vacia)
            THEN <<Linea("Turisme", StripDer(ConEspacio(marca, modelo)))>> ELSE <<>>)
        \o (IF titular # <<>>
            THEN <<Linea("Titular",
                         [nombre |-> Strip(ConEspacio(Get(titular, "nombre", Vacia),
                                                      Get(titular, "apellidos", Vacia))),
                          dni |-> Get(titular, "dni", Vacia)])>>
            ELSE <<>>)
        \o (IF conductores # <<>>
            THEN <<Linea("Conductors habituals coneguts", <<>>)>>
                 \o [i \in 1..Min(3, Len(conductores)) |->
                        Linea("conductor",
                              [nombre |-> Strip(ConEspacio(Get(conductores[i], "nombre", Vacia),
                                                           Get(conductores[i], "apellidos", Vacia))),
                               dni |-> Get(conductores[i], "dni", Vacia),
                               confianza |-> Get(conductores[i], "confidence", 0)])]
            ELSE <<>>)
        \o (IF apariciones > 0
            THEN <<Linea("actuacions previes", apariciones)>>
                 \o (IF eventos # <<>>
                     THEN <<Linea("Esdeveniments relacionats", Limit(eventos, 5))>> ELSE <<>>)
            ELSE <<>>)
        \o <<Linea("", <<>>)>>

\* _explicar_persona(match)
ExplicarPersona(m) ==
    LET e == m.entidad_original
        dni == Get(e, "dni", Vacia)
        nombre_completo == Strip(ConEspacio(Get(e, "nombre", Vacia), Get(e, "apellidos", Vacia)))
        db_record == m.db_record
        enrichment == m.enrichment
        db_nombre == Strip(ConEspacio(Get(db_record, "nombre", Vacia),
                                      Get(db_record, "apellidos", Vacia)))
        apariciones == Get(enrichment, "apariciones_previas", 0)
        roles == Get(enrichment, "roles_previos", <<>>)
        direccion == Get(db_record, "direccion", Vacia)
        vehiculos == Get(enrichment, "vehiculos_relacionados", <<>>)
    IN  (IF dni # Vacia THEN <<Linea("PERSONA (dni)", [nombre |-> nombre_completo, dni |-> dni])>>
         ELSE <<Linea("PERSONA", nombre_completo)>>)
        \o LineaTipo(m)
        \o (IF m.match_type = "PARCIAL" /\ Presente(db_record)
               /\ Lower(db_nombre) # Lower(nombre_completo)
            THEN <<Linea("Nom a la base de dades", db_nombre)>> ELSE <<>>)
        \o (IF apariciones > 0 THEN <<Linea("aparicions previes", apariciones)>>
            ELSE <<Linea("Primera aparicio en el sistema", <<>>)>>)
        \o (IF roles # <<>> THEN <<Linea("Rols previs", Limit(roles, 5))>> ELSE <<>>)
        \o (IF Presente(db_record) /\ direccion # Vacia
            THEN <<Linea("Domicili conegut", direccion)>> ELSE <<>>)
        \o (IF vehiculos # <<>>
            THEN <<Linea("Vehicles relacionats", <<>>)>>
                 \o [i \in 1..Min(3, Len(vehiculos)) |->
                        Linea("vehicle",
                              [plate |-> Get(vehiculos[i], "plate", Vacia),
                               brand |-> Get(vehiculos[i], "brand", Vacia),
                               model |-> Get(vehiculos[i], "model", Vacia),
                               relation_type |-> Get(vehiculos[i], "relation_type", "")])]
            ELSE <<>>)
        \o <<Linea("", <<>>)>>

\* _explicar_ubicacion(match)
ExplicarUbicacion(m) ==
    LET e == m.entidad_original
        nombre_via == Get(e, "nombre_via", Vacia)
        numero == Get(e, "numero", Vacia)
        db_record == m.db_record
        enrichment == m.enrichment
        canonical == IF Presente(db_record) /\ Get(db_record, "canonical_name", Vacia) # Vacia
                     THEN Strip(db_record.canonical_name)
                     ELSE Strip(ConEspacio(nombre_via, numero))
        lat == Get(db_record, "latitude", 0)
        lon == Get(db_record, "longitude", 0)
        apariciones == Get(enrichment, "apariciones_previas", 0)
        eventos == Get(enrichment, "eventos_recurrentes", <<>>)
        alias == Get(enrichment, "alias", <<>>)
    IN  <<Linea("UBICACIO", canonical)>>
        \o LineaTipo(m)
        \o (IF Presente(db_record) /\ lat # 0 /\ lon # 0
            THEN <<Linea("Coordenades", <<lat, lon>>)>> ELSE <<>>)
        \o (IF apariciones > 0
            THEN <<Linea("Ubicacio recurrent", apariciones)>>
                 \o (IF eventos # <<>>
                     THEN <<Linea("Tipologia habitual", Limit(eventos, 5))>> ELSE <<>>)
                 \o <<Linea("CONSIDERACIO: Zona d'actuacions frequents", <<>>)>>
            ELSE <<>>)
        \o (IF alias # <<>> THEN <<Linea("Noms alternatius", Limit(alias, 3))>> ELSE <<>>)
        \o <<Linea("", <<>>)>>

\* one of the three loops of _generar_explicacion
RECURSIVE SeccionesDeLista(_, _)
SeccionesDeLista(ms, cl) ==
    IF ms = <<>> THEN <<>>
    ELSE (IF Head(ms).match_type # "SIN_COINCIDENCIA"
          THEN <<CASE cl = "vehiculos" -> ExplicarVehiculo(Head(ms))
                   [] cl = "personas" -> ExplicarPersona(Head(ms))
                   [] OTHER -> ExplicarUbicacion(Head(ms))>>
          ELSE <<>>)
         \o SeccionesDeLista(Tail(ms), cl)

Cabecera == <<Linea("=== INFORMACIO DE BASE DE DADES ===", <<>>)>>

SinCoincidencias == <<Linea("No s'han trobat coincidencies amb la base de dades.", <<>>)>>

\* _generar_explicacion with the persons rendered before the vehicles
GenerarExplicacionPersonasAntes(mm) ==
    LET secciones == <<Cabecera>>
                     \o SeccionesDeLista(mm.personas, "personas")
                     \o SeccionesDeLista(mm.vehiculos, "vehiculos")
                     \o SeccionesDeLista(mm.ubicaciones, "ubicaciones")
    IN  IF Len(secciones) = 1 THEN Append(secciones, SinCoincidencias) ELSE secciones

\* _generar_explicacion(matches): the list `secciones`
GenerarExplicacion(mm) ==
    LET secciones == <<Cabecera>>
                     \o SeccionesDeLista(mm.vehiculos, "vehiculos")
                     \o SeccionesDeLista(mm.personas, "personas")
                     \o SeccionesDeLista(mm.ubicaciones, "ubicaciones")
    IN  IF Len(secciones) = 1 THEN Append(secciones, SinCoincidencias) ELSE secciones

\* the counters with the exact threshold applied to EXACTO matches only
ContadorDeParcialNuncaExacta(m) ==
    IF m.match_type = "EXACTO" THEN "entidades_exactas"
    ELSE IF m.match_type = "PARCIAL" /\ m.confidence >= Pct(THRESHOLD_PARCIAL)
    THEN "entidades_parciales"
    ELSE "entidades_sin_match"

\* the counter of _generar_metadata one Match is added to
ContadorDe(m) ==
    IF m.match_type = "EXACTO"
       \/ (m.match_type = "PARCIAL" /\ m.confidence >= Pct(THRESHOLD_EXACTO))
    THEN "entidades_exactas"
    ELSE IF m.match_type = "PARCIAL" /\ m.confidence >= Pct(THRESHOLD_PARCIAL)
    THEN "entidades_parciales"
    ELSE "entidades_sin_match"

\* the counting loop of _generar_metadata over one list
RECURSIVE ContarLista(_, _)
ContarLista(md, ms) ==
    IF ms = <<>> THEN md
    ELSE ContarLista([md EXCEPT ![ContadorDe(Head(ms))] = @ + 1], Tail(ms))

\* the warnings of _generar_metadata
AvisosVehiculos(ms) ==
    LET con == SelectSeq(ms, LAMBDA m : m.match_type # "SIN_COINCIDENCIA"
                              /\ Get(m.enrichment, "conductores_habituales", <<>>) # <<>>)
    IN  [i \in 1..Len(con) |-> "Vehicle amb conductors habituals coneguts"]

AvisosUbicaciones(ms) ==
    LET con == SelectSeq(ms, LAMBDA m : m.match_type # "SIN_COINCIDENCIA"
                              /\ Get(m.enrichment, "apariciones_previas", 0) >= 5)
    IN  [i \in 1..Len(con) |-> "Ubicacio amb alta recurrencia d'incidents"]

\* _generar_metadata(matches)
GenerarMetadata(mm) ==
    LET cero == [entidades_exactas |-> 0, entidades_parciales |-> 0, entidades_sin_match |-> 0]
        cuenta == ContarLista(ContarLista(ContarLista(cero, mm.vehiculos), mm.personas),
                              mm.ubicaciones)
    IN  [entidades_exactas |-> cuenta.entidades_exactas,
         entidades_parciales |-> cuenta.entidades_parciales,
         entidades_sin_match |-> cuenta.entidades_sin_match,
         warnings |-> AvisosVehiculos(mm.vehiculos) \o AvisosUbicaciones(mm.ubicaciones)]

(***************************************************************************)
(* Inputs of the annotator                                                 *)
(***************************************************************************)
Alfabeto == {"a", "A", "b", "@"}

\* every string of at most n characters of alphabet A
RECURSIVE Cadenas(_, _)
Cadenas(A, n) ==
    IF n = 0 THEN {<<>>}
    ELSE LET menores == Cadenas(A, n - 1)
         IN  menores \cup {Append(w, c) : w \in {x \in menores : Len(x) = n - 1}, c \in A}

Textos == Cadenas(Alfabeto, MaxTextLen)

VehiculosAnot ==
    { [matricula |-> <<"a", "b">>, marca |-> <<"a">>, modelo |-> <<"b">>],
      [matricula |-> <<"a", "a">>, marca |-> Vacia, modelo |-> Vacia],
      [matricula |-> Vacia, marca |-> <<"A">>, modelo |-> Vacia] }

PersonasAnot ==
    { [dni |-> <<"a", "b">>, nombre |-> <<"a", "b">>, apellidos |-> Vacia],
      [dni |-> Vacia, nombre |-> <<"a">>, apellidos |-> <<"b">>],
      [dni |-> <<"b">>, nombre |-> Vacia, apellidos |-> <<"A", "b">>] }

UbicacionesAnot ==
    { [texto_completo |-> <<"a", "b">>, tipo_via |-> Vacia, nombre_via |-> <<"b">>, numero |-> Vacia],
      [texto_completo |-> Vacia, tipo_via |-> Vacia, nombre_via |-> <<"b", "a">>, numero |-> Vacia],
      [texto_completo |-> Vacia, tipo_via |-> Vacia, nombre_via |-> Vacia, numero |-> Vacia] }

\* (match_type, confidence in hundredths) of the matches handed to the annotator
ClasesAnot ==
    { <<"EXACTO", 100>>, <<"PARCIAL", 88>>, <<"PARCIAL", 60>>, <<"SIN_COINCIDENCIA", 0>> }

MatchesDe(ents) ==
    { [entidad_original |-> e, match_type |-> k[1], confidence |-> Pct(k[2]),
       db_record |-> Null, enrichment |-> <<>>] : e \in ents, k \in ClasesAnot }

ListasDe(S) == {<<>>} \cup {<<m>> : m \in S}

MatchesAnot ==
    { mm \in [vehiculos : ListasDe(MatchesDe(VehiculosAnot)),
              personas : ListasDe(MatchesDe(PersonasAnot)),
              ubicaciones : ListasDe(MatchesDe(UbicacionesAnot))] :
        Len(mm.vehiculos) + Len(mm.personas) + Len(mm.ubicaciones) <= 2 }

SinMatches == [vehiculos |-> <<>>, personas |-> <<>>, ubicaciones |-> <<>>]

\* no request to /api/v1/enrich has been answered
SinRespuesta == [status |-> 0]

\* a fecha is the day number of its ISO string; the empty string is FechaVacia
FechaVacia == 0 - 1

\* table historial of HermanoMayorDB
TablaHistorial ==
    << [matricula |-> <<"1", "2", "A", "B", "X">>, fecha |-> 2, tipo_actuacion |-> "control",
        agente_tip |-> "T1", ubicacion |-> "Mayor 1"],
       [matricula |-> <<"1", "2", "A", "B", "X">>, fecha |-> 4, tipo_actuacion |-> "denuncia",
        agente_tip |-> "T2", ubicacion |-> "Ribas 8"],
       [matricula |-> <<" ">>, fecha |-> FechaVacia, tipo_actuacion |-> "control",
        agente_tip |-> "T1", ubicacion |-> "Mayor 1"] >>

\* table historial_personas of HermanoMayorDB
TablaHistorialPersonas ==
    << [dni |-> <<"9", "X">>, fecha |-> 3, tipo_actuacion |-> "denuncia", rol |-> "testigo",
        ubicacion |-> "Mayor 1"] >>

\* the reference store as the gateway finds it
AlmacenInicial ==
    [historial |-> TablaHistorial, historial_personas |-> TablaHistorialPersonas,
     vehicles |-> TablaVehicles, persons |-> TablaPersons, locations |-> TablaLocations,
     location_aliases |-> TablaLocationAliases, entity_links |-> TablaEntityLinks,
     vehicle_person_links |-> TablaVehiclePersonLinks, person_roles |-> TablaPersonRoles,
     events_drag |-> TablaEventsDrag]

\* no function called on its own
FuncionSinUso ==
    /\ args = <<>>
    /\ retorno = Null

\* no call of the explainer
ExplainerSinUso ==
    /\ almacen = AlmacenInicial
    /\ ahora = 0
    /\ informes = <<>>

\* no request to the matcher
MatcherSinUso ==
    /\ clase = "ninguna"
    /\ entidades = <<>>
    /\ fallos = <<>>
    /\ resultados = <<>>
    /\ estado = "Start"
    /\ consultas = <<>>
    /\ respuesta = SinRespuesta
    /\ ExplainerSinUso
    /\ FuncionSinUso

(***************************************************************************)
(* Specification of anotar_texto                                           *)
(***************************************************************************)
InitAnot ==
    /\ pc = "anotar"
    /\ texto \in Textos
    /\ matches \in MatchesAnot
    /\ candidatas = <<>>
    /\ marcas = <<>>
    /\ enriquecido = <<>>
    /\ explicacion = <<>>
    /\ metadata = <<>>
    /\ MatcherSinUso

\* AnnotatorService.anotar_texto(texto_original, matches)
AnotarTexto ==
    /\ pc = "anotar"
    /\ candidatas' = MarcasCandidatas(texto, matches)
    /\ marcas' = ConstruirMarcas(texto, matches)
    /\ enriquecido' = AplicarMarcas(texto, ConstruirMarcas(texto, matches))
    /\ explicacion' = GenerarExplicacion(matches)
    /\ metadata' = GenerarMetadata(matches)
    /\ pc' = "anotado"
    /\ UNCHANGED <<texto, matches, varsMatch, respuesta, varsExpl, varsFn>>

NextAnot == AnotarTexto

SpecAnot == InitAnot /\ [][NextAnot]_vars

(***************************************************************************)
(* Specification of _aplicar_marcas alone: any text, any list of markers   *)
(* sorted by start with 0 <= start < end <= len(texto)                     *)
(***************************************************************************)
TextosAplicar == Cadenas({"a", "@"}, MaxTextLen)

MarcasSobre(txt) ==
    { Marca(a, b, t, Slice(txt, a, b)) : a \in 0..Len(txt), b \in 0..Len(txt), t \in {"@", "**"} }

ListasDeMarcas(txt) ==
    LET M == {m \in MarcasSobre(txt) : m.start < m.end}
        todas == UNION {[1..n -> M] : n \in 0..MaxMarcas}
    IN  {ms \in todas : \A i \in 1..(Len(ms) - 1) : ms[i].start <= ms[i + 1].start}

InitAplicar ==
    /\ pc = "aplicar"
    /\ texto \in TextosAplicar
    /\ marcas \in ListasDeMarcas(texto)
    /\ matches = SinMatches
    /\ candidatas = <<>>
    /\ enriquecido = <<>>
    /\ explicacion = <<>>
    /\ metadata = <<>>
    /\ MatcherSinUso

\* AnnotatorService._aplicar_marcas(texto, marcas)
AplicarMarcasSolo ==
    /\ pc = "aplicar"
    /\ enriquecido' = AplicarMarcas(texto, marcas)
    /\ pc' = "aplicado"
    /\ UNCHANGED <<texto, matches, candidatas, marcas, explicacion, metadata, varsMatch, respuesta, varsExpl, varsFn>>

NextAplicar == AplicarMarcasSolo

SpecAplicar == InitAplicar /\ [][NextAplicar]_vars

AnotadorSinUso ==
    /\ texto = <<>>
    /\ matches = SinMatches
    /\ candidatas = <<>>
    /\ marcas = <<>>
    /\ enriquecido = <<>>
    /\ explicacion = <<>>
    /\ metadata = <<>>
    /\ respuesta = SinRespuesta
    /\ ExplainerSinUso
    /\ FuncionSinUso

(***************************************************************************)
(* Specification of contrastar_entidades for a request with one key        *)
(***************************************************************************)
InitMatch ==
    /\ pc = "contrastar"
    /\ clase \in Clases
    /\ \E n \in 0..MaxLote :
           /\ entidades \in [1..n -> EntidadesDe(clase)]
           /\ fallos \in [1..n -> FallosDe(clase)]
    /\ resultados = <<>>
    /\ estado = "Start"
    /\ consultas = <<>>
    /\ AnotadorSinUso

\* MatcherService._match_vehiculos(vehiculos)
MatchVehiculos ==
    /\ pc = "contrastar"
    /\ clase = "vehiculos"
    /\ resultados' = MatchLote(<<>>, "vehiculos", entidades, fallos)
    /\ pc' = "contrastado"
    /\ UNCHANGED <<clase, entidades, fallos, estado, consultas, varsAnot, respuesta, varsExpl, varsFn>>

\* MatcherService._match_personas(personas)
MatchPersonas ==
    /\ pc = "contrastar"
    /\ clase = "personas"
    /\ resultados' = MatchLote(<<>>, "personas", entidades, fallos)
    /\ pc' = "contrastado"
    /\ UNCHANGED <<clase, entidades, fallos, estado, consultas, varsAnot, respuesta, varsExpl, varsFn>>

\* MatcherService._match_ubicaciones(ubicaciones)
MatchUbicaciones ==
    /\ pc = "contrastar"
    /\ clase = "ubicaciones"
    /\ resultados' = MatchLote(<<>>, "ubicaciones", entidades, fallos)
    /\ pc' = "contrastado"
    /\ UNCHANGED <<clase, entidades, fallos, estado, consultas, varsAnot, respuesta, varsExpl, varsFn>>

NextMatch == MatchVehiculos \/ MatchPersonas \/ MatchUbicaciones

SpecMatch == InitMatch /\ [][NextMatch]_vars

(***************************************************************************)
(* Properties of the annotator                                             *)
(***************************************************************************)
Indices(s) == 1..Len(s)

Cuenta(ms, tipo) == Cardinality({i \in Indices(ms) : ms[i].tipo = tipo})

\* the characters of s that are not markup characters
Letras(s) == SelectSeq(s, LAMBDA c : c \notin {"@", "*"})

\* buscar occurs in txt, compared case-insensitively
Ocurre(txt, buscar) ==
    /\ buscar # <<>>
    /\ \E p \in 0..(Len(txt) - Len(buscar)) :
           \A k \in 1..Len(buscar) : LowerChar(txt[p + k]) = LowerChar(buscar[k])

\* the textual facets of the entity of a match of the given list
Facetas(cl, e) ==
    CASE cl = "vehiculos" -> {e.matricula, e.marca, e.modelo}
      [] cl = "personas" -> {e.dni, e.nombre, e.apellidos}
      [] OTHER -> {e.texto_completo, e.nombre_via}

\* the closing and opening markup the markers ms put at offset p, then the text
\* written from left to right
Apertura(m) == IF m.tipo = "@" THEN <<"@">> ELSE <<"*", "*">>

RECURSIVE MarcasEn(_, _, _)
MarcasEn(ms, p, abre) ==
    IF ms = <<>> THEN <<>>
    ELSE (IF abre /\ Head(ms).start = p THEN Apertura(Head(ms))
          ELSE IF ~abre /\ Head(ms).end = p /\ Head(ms).tipo = "**" THEN <<"*", "*">>
          ELSE <<>>)
         \o MarcasEn(Tail(ms), p, abre)

RECURSIVE InsertadoDesde(_, _, _)
InsertadoDesde(txt, ms, p) ==
    MarcasEn(ms, p, FALSE) \o MarcasEn(ms, p, TRUE)
    \o (IF p >= Len(txt) THEN <<>> ELSE <<txt[p + 1]>> \o InsertadoDesde(txt, ms, p + 1))

Insertado(txt, ms) == InsertadoDesde(txt, ms, 0)

\* C1: the markers returned by _construir_marcas (the result of
\* _resolver_solapamientos) are pairwise disjoint half-open intervals.
C1_MarcasDisjuntas ==
    pc = "anotado" =>
        \A i, j \in Indices(marcas) : i # j => ~Solapan(marcas[i], marcas[j])

\* C2: the result never holds a Weak ('**') marker that overlaps a Strong ('@')
\* marker of the result.
C2_FuerteGanaADebil ==
    pc = "anotado" =>
        \A i, j \in Indices(marcas) :
            (marcas[i].tipo = "**" /\ marcas[j].tipo = "@") => ~Solapan(marcas[i], marcas[j])

\* C3: the enriched text is the original text with '@' inserted before each
\* accepted Strong span and '**' before and after each accepted Weak span; the
\* characters of the original text are all kept, once and in order.
C3_TextoConMarcasInsertadas ==
    pc = "anotado" =>
        /\ enriquecido = Insertado(texto, marcas)
        /\ Letras(enriquecido) = Letras(texto)

\* C4: _aplicar_marcas returns a text of length
\* len(texto) + 1 * (number of '@' markers) + 4 * (number of '**' markers).
C4_LongitudMonotona ==
    pc = "aplicado" =>
        Len(enriquecido) = Len(texto) + 1 * Cuenta(marcas, "@") + 4 * Cuenta(marcas, "**")

C4_Witness ==
    /\ pc = "aplicado"
    /\ \E i, j \in Indices(marcas) :
           /\ i # j
           /\ Solapan(marcas[i], marcas[j])
           /\ marcas[i].tipo = "@"
           /\ marcas[j].tipo = "**"

\* C5: when the three match lists are empty, or no facet of a markable match
\* occurs in the text, the enriched text is the input text.
NingunaFacetaOcurre ==
    \A cl \in Clases : \A i \in Indices(matches[cl]) :
        Marcable(matches[cl][i]) =>
            \A f \in Facetas(cl, matches[cl][i].entidad_original) : ~Ocurre(texto, f)

C5_SinMarcasSinCambio ==
    (pc = "anotado" /\ (matches = SinMatches \/ NingunaFacetaOcurre)) => enriquecido = texto

C5_Witness ==
    /\ pc = "anotado"
    /\ NingunaFacetaOcurre
    /\ \E i \in Indices(texto) : texto[i] = "@"
    /\ \E cl \in Clases : \E i \in Indices(matches[cl]) : Marcable(matches[cl][i])
    /\ enriquecido = texto

(***************************************************************************)
(* Properties of the matcher                                               *)
(***************************************************************************)
\* the outcome of resolving entity i of the request with its gateway failure
Resuelta(i) == Resolucion[clase][entidades[i]][fallos[i]]

\* the Match of entity i when no gateway query fails
SinFallos(i) == Resolucion[clase][entidades[i]][SinFallo].valor

\* the row the exact lookup by natural key returns for the entity, Null without one
ClaveExacta(cl, e) ==
    CASE cl = "vehiculos" ->
            IF Strip(e.matricula) = <<>> THEN Null
            ELSE BuscarVehiculoExacto(NormalizarMatricula(Strip(e.matricula)))
      [] cl = "personas" ->
            IF Strip(e.dni) = <<>> THEN Null ELSE BuscarPersonaByDni(Strip(e.dni))
      [] OTHER ->
            IF Strip(e.nombre_via) = <<>> THEN Null
            ELSE BuscarUbicacionExacta(Strip(e.tipo_via), Strip(e.nombre_via), Strip(e.numero))

ConsultasExactas == {"_buscar_vehiculo_exacto", "_buscar_persona_by_dni", "_buscar_ubicacion_exacta"}

FallaHistorico(i) ==
    /\ SinFallos(i).match_type \in {"EXACTO", "PARCIAL"}
    /\ fallos[i] \in ConsultasHistorico
    /\ fallos[i] = "_get_persona_by_dni" => SinFallos(i).db_record.dni_titular # <<>>

\* C7: when a historical-aggregate query fails after the exact or fuzzy stage
\* accepted a record, the Match keeps match_type, confidence and db_record and
\* its enrichment is the empty map.
C7_FalloHistoricoNoAnulaMatch ==
    pc = "contrastado" =>
        \A i \in Indices(resultados) :
            FallaHistorico(i) =>
                /\ resultados[i].match_type = SinFallos(i).match_type
                /\ resultados[i].confidence = SinFallos(i).confidence
                /\ resultados[i].db_record = SinFallos(i).db_record
                /\ resultados[i].enrichment = <<>>

\* C8: an entity whose normalized natural key has an exact hit in the gateway gets
\* match_type EXACTO, confidence 1.0 and the hit row as db_record.
C8_ClaveExactaDaExacto ==
    pc = "contrastado" =>
        \A i \in Indices(resultados) :
            (ClaveExacta(clase, entidades[i]) # Null /\ fallos[i] \notin ConsultasExactas) =>
                /\ resultados[i].match_type = "EXACTO"
                /\ resultados[i].confidence = Pct(100)
                /\ resultados[i].db_record = ClaveExacta(clase, entidades[i])

\* C9 as stated: every PARCIAL Match has 0.85 <= confidence < 0.95.
C9_ParcialBajoUmbralExacto ==
    pc = "contrastado" =>
        \A i \in Indices(resultados) :
            resultados[i].match_type = "PARCIAL" =>
                /\ Pct(85) <= resultados[i].confidence
                /\ resultados[i].confidence < Pct(95)

\* C9 as amended: every PARCIAL Match has 0.85 <= confidence <= 1.0.
C9_ParcialDesdeUmbral ==
    pc = "contrastado" =>
        \A i \in Indices(resultados) :
            resultados[i].match_type = "PARCIAL" =>
                /\ Pct(85) <= resultados[i].confidence
                /\ resultados[i].confidence <= Pct(100)

C9_Witness ==
    /\ pc = "contrastado"
    /\ \E i, j \in Indices(resultados) :
           /\ resultados[i].match_type = "PARCIAL"
           /\ resultados[i].confidence = Pct(100)
           /\ resultados[j].match_type = "PARCIAL"
           /\ resultados[j].confidence < Pct(95)

\* the row the alias lookup returns for a location, Null without one
AliasDe(e) == BuscarUbicacionAlias(Strip(e.nombre_via), Strip(e.numero))

\* C10: an EXACTO Match has confidence 1.0, except a location accepted through the
\* alias lookup, which has confidence 0.95; the alias result is used only when the
\* exact lookup missed, so an EXACTO location with an exact hit has 1.0.
C10_ConfianzaExacto ==
    pc = "contrastado" =>
        \A i \in Indices(resultados) :
            resultados[i].match_type = "EXACTO" =>
                \/ /\ resultados[i].confidence = Pct(100)
                   /\ resultados[i].db_record = ClaveExacta(clase, entidades[i])
                \/ /\ clase = "ubicaciones"
                   /\ resultados[i].confidence = Pct(95)
                   /\ ClaveExacta(clase, entidades[i]) = Null
                   /\ resultados[i].db_record = AliasDe(entidades[i])

C10_Witness ==
    /\ pc = "contrastado"
    /\ clase = "ubicaciones"
    /\ \E i, j \in Indices(resultados) :
           /\ resultados[i].match_type = "EXACTO"
           /\ resultados[i].confidence = Pct(95)
           /\ resultados[j].match_type = "EXACTO"
           /\ resultados[j].confidence = Pct(100)
           /\ AliasDe(entidades[j]) # Null

\* the natural key of the entity is absent or blank
SinClaveNatural(cl, e) ==
    CASE cl = "vehiculos" -> Strip(e.matricula) = <<>>
      [] cl = "personas" -> Strip(e.dni) = <<>>
      [] OTHER -> Strip(e.nombre_via) = <<>>

\* a report text that mentions every field of the entity
TextoQueMenciona(cl, e) ==
    CASE cl = "vehiculos" -> ConEspacio(e.matricula, ConEspacio(e.marca, e.modelo))
      [] cl = "personas" -> ConEspacio(e.dni, ConEspacio(e.nombre, e.apellidos))
      [] OTHER -> ConEspacio(e.texto_completo, ConEspacio(e.nombre_via, e.numero))

\* C11: an entity whose natural key is absent or blank (vehicle without plate,
\* person without DNI, location without street name) resolves to SIN_COINCIDENCIA
\* with no db_record, and the annotator builds no marker and no explanation
\* section for its Match (stated for the entities no gateway query fails for).
C11_SinClaveSinCoincidencia ==
    pc = "contrastado" =>
        \A i \in Indices(resultados) :
            (SinClaveNatural(clase, entidades[i]) /\ fallos[i] = SinFallo) =>
                /\ resultados[i].match_type = "SIN_COINCIDENCIA"
                /\ resultados[i].db_record = Null
                /\ MarcasDeLista(TextoQueMenciona(clase, entidades[i]), <<resultados[i]>>, clase) = <<>>
                /\ SeccionesDeLista(<<resultados[i]>>, clase) = <<>>

\* the rows of the gateway table the fuzzy scan of a class enumerates
TablaDe(cl) ==
    CASE cl = "vehiculos" -> TablaVehicles
      [] cl = "personas" -> TablaPersons
      [] OTHER -> TablaLocations

\* the weighted confidence of entity e against row k of its table
ConfianzaDe(cl, e, k) ==
    CASE cl = "vehiculos" ->
            ConfianzaVehiculo(NormalizarMatricula(Strip(e.matricula)), Strip(e.marca),
                              Strip(e.modelo), TablaVehicles[k])
      [] cl = "personas" ->
            ConfianzaPersona(Strip(e.nombre), Strip(e.apellidos), TablaPersons[k])
      [] OTHER ->
            Min(ConfianzaUbicacion(Strip(e.nombre_via), Strip(e.numero), TablaLocations[k]),
                Pct(100))

\* the largest weighted confidence over all rows
ConfianzaMaxima(cl, e) == MaxOf({ConfianzaDe(cl, e, k) : k \in 1..Len(TablaDe(cl))})

\* the first row, in gateway row order, that attains it
PrimeraFilaMaxima(cl, e) ==
    LET k == CHOOSE k \in 1..Len(TablaDe(cl)) :
                 /\ ConfianzaDe(cl, e, k) = ConfianzaMaxima(cl, e)
                 /\ \A j \in 1..(k - 1) : ConfianzaDe(cl, e, j) < ConfianzaMaxima(cl, e)
    IN  TablaDe(cl)[k]

\* the exact lookup, and for locations the alias lookup, returns no row for the entity
LookupsFallan(cl, e) ==
    /\ ClaveExacta(cl, e) = Null
    /\ cl = "ubicaciones" => AliasDe(e) = Null

\* C12: when the exact (and, for locations, alias) lookup misses, the entity
\* resolves to PARCIAL iff the largest weighted confidence over all gateway rows is
\* >= 0.85, with db_record the first row in gateway order attaining it, and to
\* SIN_COINCIDENCIA otherwise (stated for the entities whose lookup queries do not
\* fail).
C12_DecisionFuzzy ==
    pc = "contrastado" =>
        \A i \in Indices(resultados) :
            (LookupsFallan(clase, entidades[i]) /\ fallos[i] \in {SinFallo} \cup ConsultasHistorico) =>
                IF ConfianzaMaxima(clase, entidades[i]) >= Pct(85)
                THEN /\ resultados[i].match_type = "PARCIAL"
                     /\ resultados[i].db_record = PrimeraFilaMaxima(clase, entidades[i])
                ELSE resultados[i].match_type = "SIN_COINCIDENCIA"

\* the similarity ratio of one descriptive field, 0 when it is empty on either side
RatioCampo(a, b) ==
    IF a = <<>> \/ b = <<>> THEN 0 ELSE Similitud(NormalizarTexto(a), NormalizarTexto(b))

\* the weighted sum of the claim for entity e and stored row r
SumaPonderada(cl, e, r) ==
    CASE cl = "vehiculos" ->
            70 * Similitud(NormalizarMatricula(Strip(e.matricula)), NormalizarMatricula(r.plate))
            + 15 * RatioCampo(Strip(e.marca), r.brand)
            + 15 * RatioCampo(Strip(e.modelo), r.model)
      [] cl = "personas" ->
            40 * RatioCampo(Strip(e.nombre), r.nombre)
            + 60 * RatioCampo(Strip(e.apellidos), r.apellidos)
      [] OTHER ->
            Min(100 * RatioCampo(Strip(e.nombre_via), r.street_name)
                + (IF Strip(e.numero) # <<>> /\ r.number = Strip(e.numero) THEN Pct(10) ELSE 0),
                Pct(100))

\* C13: the confidence of every PARCIAL Match equals the fixed weighted sum of the
\* similarity ratios of the entity's fields and the chosen db_record's fields
\* (vehicle 0.70/0.15/0.15, person 0.40/0.60, location ratio plus 0.10 for an equal
\* house number, capped at 1.0; an empty field counts 0).
C13_ConfianzaEsSumaPonderada ==
    pc = "contrastado" =>
        \A i \in Indices(resultados) :
            resultados[i].match_type = "PARCIAL" =>
                resultados[i].confidence =
                    SumaPonderada(clase, entidades[i], resultados[i].db_record)

C13_Witness ==
    /\ pc = "contrastado"
    /\ \E i \in Indices(resultados) :
           /\ resultados[i].match_type = "PARCIAL"
           /\ resultados[i].confidence > Pct(85)
           /\ resultados[i].confidence < Pct(100)

(***************************************************************************)
(* Specification of _match_<clase>_single for one entity, one stage at a   *)
(* time.  pc is the stage the method is about to run; estado is Start      *)
(* until the method returns or raises.                                     *)
(***************************************************************************)
Terminales == {"NoMatch", "Exact", "Partial", "Error"}

\* the gateway query of a lookup stage
ConsultaDeEtapa(cl, etapa) ==
    CASE cl = "vehiculos" ->
            (IF etapa = "exacta" THEN "_buscar_vehiculo_exacto" ELSE "_buscar_vehiculo_fuzzy")
      [] cl = "personas" ->
            (IF etapa = "exacta" THEN "_buscar_persona_by_dni" ELSE "_buscar_persona_by_nombre")
      [] OTHER ->
            (IF etapa = "exacta" THEN "_buscar_ubicacion_exacta"
             ELSE IF etapa = "alias" THEN "_buscar_ubicacion_alias"
             ELSE "_buscar_ubicacion_fuzzy")

\* the candidates the fuzzy scan of the class returns for the entity
FuzzyDe(cl, e) ==
    CASE cl = "vehiculos" ->
            BuscarVehiculoFuzzy(NormalizarMatricula(Strip(e.matricula)), Strip(e.marca),
                                Strip(e.modelo))
      [] cl = "personas" -> BuscarPersonaByNombre(Strip(e.nombre), Strip(e.apellidos))
      [] OTHER -> BuscarUbicacionFuzzy(Strip(e.tipo_via), Strip(e.nombre_via), Strip(e.numero))

\* _build_<clase>_match
BuildMatch(cl, e, db_record, match_type, confidence, fallo) ==
    CASE cl = "vehiculos" -> BuildVehiculoMatch(e, db_record, match_type, confidence, fallo)
      [] cl = "personas" -> BuildPersonaMatch(e, db_record, match_type, confidence, fallo)
      [] OTHER -> BuildUbicacionMatch(e, db_record, match_type, confidence, fallo)

\* "if nombre or apellidos:" (persons); the other classes always scan
ConFuzzy(cl, e) == cl = "personas" => (Strip(e.nombre) # <<>> \/ Strip(e.apellidos) # <<>>)

\* the stage that runs after the given stage missed with alias and fuzzy exchanged
SiguienteEtapaFuzzyAntes(cl, e, etapa) ==
    IF etapa = "exacta" THEN (IF ConFuzzy(cl, e) THEN "fuzzy" ELSE "ninguna")
    ELSE IF etapa = "fuzzy" THEN (IF cl = "ubicaciones" THEN "alias" ELSE "ninguna")
    ELSE "ninguna"

\* the stage that runs after the given stage missed, "ninguna" after the last one
SiguienteEtapa(cl, e, etapa) ==
    IF etapa = "exacta"
    THEN (IF cl = "ubicaciones" THEN "alias"
          ELSE IF ConFuzzy(cl, e) THEN "fuzzy" ELSE "ninguna")
    ELSE IF etapa = "alias" THEN "fuzzy"
    ELSE "ninguna"

\* the method returns m
Retorna(nuevo, m) ==
    /\ estado' = nuevo
    /\ resultados' = <<m>>
    /\ pc' = "resuelto"

\* the method returns the Match r carries, or raises and the batch loop reports it
Concluye(nuevo, r) ==
    IF r.excepcion THEN Retorna("Error", MatchError(entidades[1], r.razon))
    ELSE Retorna(nuevo, r.valor)

\* the stage missed: the next stage runs, or the method returns SIN_COINCIDENCIA
Continua(etapa) ==
    LET sig == SiguienteEtapa(clase, entidades[1], etapa)
    IN  IF sig = "ninguna" THEN Retorna("NoMatch", SinCoincidencia(entidades[1]))
        ELSE pc' = sig /\ UNCHANGED <<estado, resultados>>

InitEtapas ==
    /\ pc = "campo_requerido"
    /\ clase \in Clases
    /\ entidades \in [1..1 -> EntidadesDe(clase)]
    /\ fallos \in [1..1 -> FallosDe(clase)]
    /\ resultados = <<>>
    /\ estado = "Start"
    /\ consultas = <<>>
    /\ AnotadorSinUso

\* the required-field check
CampoRequerido ==
    /\ pc = "campo_requerido"
    /\ IF clase = "personas"
       THEN IF Strip(entidades[1].dni) # <<>> THEN pc' = "exacta" /\ UNCHANGED <<estado, resultados>>
            ELSE IF ConFuzzy(clase, entidades[1])
            THEN pc' = "fuzzy" /\ UNCHANGED <<estado, resultados>>
            ELSE Retorna("NoMatch", SinCoincidencia(entidades[1]))
       ELSE IF SinClaveNatural(clase, entidades[1])
            THEN Retorna("NoMatch", SinCoincidencia(entidades[1]))
            ELSE pc' = "exacta" /\ UNCHANGED <<estado, resultados>>
    /\ UNCHANGED <<clase, entidades, fallos, consultas, varsAnot, respuesta, varsExpl, varsFn>>

\* the exact lookup by natural key
EtapaExacta ==
    /\ pc = "exacta"
    /\ consultas' = Append(consultas, "exacta")
    /\ IF fallos[1] = ConsultaDeEtapa(clase, "exacta") THEN Concluye("Error", Lanza(fallos[1]))
       ELSE IF ClaveExacta(clase, entidades[1]) # Null
       THEN Concluye("Exact", BuildMatch(clase, entidades[1], ClaveExacta(clase, entidades[1]),
                                         "EXACTO", Pct(100), fallos[1]))
       ELSE Continua("exacta")
    /\ UNCHANGED <<clase, entidades, fallos, varsAnot, respuesta, varsExpl, varsFn>>

\* the alias lookup (locations)
EtapaAlias ==
    /\ pc = "alias"
    /\ consultas' = Append(consultas, "alias")
    /\ IF fallos[1] = ConsultaDeEtapa(clase, "alias") THEN Concluye("Error", Lanza(fallos[1]))
       ELSE IF AliasDe(entidades[1]) # Null
       THEN Concluye("Exact", BuildMatch(clase, entidades[1], AliasDe(entidades[1]),
                                         "EXACTO", Pct(95), fallos[1]))
       ELSE Continua("alias")
    /\ UNCHANGED <<clase, entidades, fallos, varsAnot, respuesta, varsExpl, varsFn>>

\* the candidates of every entity of the catalogue, tabulated
CandidatosFuzzy == [cl \in Clases |-> [e \in EntidadesDe(cl) |-> FuzzyDe(cl, e)]]

\* "if fuzzy_matches: best_match, confidence = fuzzy_matches[0]; if confidence >= 0.85:"
FuzzyAceptado(cl, e) ==
    CandidatosFuzzy[cl][e] # <<>> /\ CandidatosFuzzy[cl][e][1].confidence >= Pct(85)

\* the fuzzy scan
EtapaFuzzy ==
    /\ pc = "fuzzy"
    /\ consultas' = Append(consultas, "fuzzy")
    /\ IF fallos[1] = ConsultaDeEtapa(clase, "fuzzy") THEN Concluye("Error", Lanza(fallos[1]))
       ELSE IF FuzzyAceptado(clase, entidades[1])
       THEN Concluye("Partial",
                     BuildMatch(clase, entidades[1], CandidatosFuzzy[clase][entidades[1]][1].registro,
                                "PARCIAL", CandidatosFuzzy[clase][entidades[1]][1].confidence,
                                fallos[1]))
       ELSE Continua("fuzzy")
    /\ UNCHANGED <<clase, entidades, fallos, varsAnot, respuesta, varsExpl, varsFn>>

NextEtapas == CampoRequerido \/ EtapaExacta \/ EtapaAlias \/ EtapaFuzzy

SpecEtapas == InitEtapas /\ [][NextEtapas]_vars /\ WF_vars(NextEtapas)

\* the position of a lookup stage in the order exact, alias, fuzzy
Rango(etapa) == IF etapa = "exacta" THEN 1 ELSE IF etapa = "alias" THEN 2 ELSE 3

\* the match_type of the Match a terminal state returns
TipoDeEstado(st) ==
    CASE st = "NoMatch" -> "SIN_COINCIDENCIA"
      [] st = "Exact" -> "EXACTO"
      [] st = "Partial" -> "PARCIAL"
      [] OTHER -> "ERROR"

\* the lookup stages ran in the order exact, alias (locations only), fuzzy, each once
EtapasEnOrden ==
    /\ \A i, j \in Indices(consultas) : i < j => Rango(consultas[i]) < Rango(consultas[j])
    /\ \A i \in Indices(consultas) :
           /\ consultas[i] \in {"exacta", "alias", "fuzzy"}
           /\ consultas[i] = "alias" => clase = "ubicaciones"

\* a stage queried the gateway only after every earlier stage missed
EtapasTrasFallo ==
    \A i \in Indices(consultas) :
        /\ consultas[i] \in {"alias", "fuzzy"} =>
               /\ ClaveExacta(clase, entidades[1]) = Null
               /\ (\E j \in 1..(i - 1) : consultas[j] = "exacta") =>
                      fallos[1] # ConsultaDeEtapa(clase, "exacta")
        /\ (consultas[i] = "fuzzy" /\ clase = "ubicaciones") =>
               /\ AliasDe(entidades[1]) = Null
               /\ fallos[1] # ConsultaDeEtapa(clase, "alias")
               /\ \E j \in 1..(i - 1) : consultas[j] = "alias"
        /\ (consultas[i] = "alias" \/ clase # "personas") =>
               \E j \in 1..i : consultas[j] = "exacta"

\* the state is Start or terminal, terminal exactly when the method has returned
\* its one Match, whose match_type is the one of the state; the stages are in order
ResolucionCoherente ==
    /\ estado \in {"Start"} \cup Terminales
    /\ estado \in Terminales <=> pc = "resuelto"
    /\ estado \in Terminales =>
           /\ Len(resultados) = 1
           /\ resultados[1].match_type = TipoDeEstado(estado)
    /\ estado = "Start" => resultados = <<>>
    /\ EtapasEnOrden
    /\ EtapasTrasFallo

\* a step taken in a terminal state changes neither the state, the Match nor the stages
PasoTrasTerminal ==
    estado \in Terminales =>
        (estado' = estado /\ consultas' = consultas /\ resultados' = resultados)

TerminalEsFinal == [][PasoTrasTerminal]_vars

\* C14: the resolution of one entity starts in Start and ends in exactly one of
\* NoMatch, Exact, Partial, Error; the lookup stages run in the order exact, alias
\* (locations only), fuzzy, a later one only after every earlier one missed; once a
\* terminal state is reached the state, the Match and the list of stages that
\* queried the gateway no longer change.
C14_MaquinaDeEstados ==
    /\ <>(estado \in Terminales)
    /\ []ResolucionCoherente
    /\ TerminalEsFinal

C14_Witness ==
    /\ estado = "Partial"
    /\ clase = "ubicaciones"
    /\ consultas = <<"exacta", "alias", "fuzzy">>

(***************************************************************************)
(* Specification of anotar_texto on a report: either a text that can       *)
(* mention the entities with at most one vehicle and one person, or an     *)
(* empty text with up to MaxSecciones matches with db_record and           *)
(* enrichment.                                                             *)
(***************************************************************************)
MaxSecciones == 3

TextosInforme == Cadenas({"a", "b", " "}, MaxTextLen)

VehiculosInforme ==
    { [matricula |-> <<"a">>, marca |-> <<"b">>, modelo |-> <<" ", "b">>],
      [matricula |-> <<"b">>, marca |-> <<"a">>, modelo |-> Vacia] }

PersonasInforme ==
    { [dni |-> Vacia, nombre |-> <<"a">>, apellidos |-> <<"b">>],
      [dni |-> <<"b">>, nombre |-> <<"a">>, apellidos |-> Vacia] }

UbicacionesInforme ==
    { [texto_completo |-> Vacia, tipo_via |-> Vacia, nombre_via |-> <<"a">>, numero |-> <<"b">>] }

\* the row of the store an accepted entity was matched with
RegistroDe(cl, e) ==
    CASE cl = "vehiculos" ->
            [vehicle_id |-> 1, plate |-> e.matricula, brand |-> e.marca, model |-> e.modelo,
             dni_titular |-> Vacia]
      [] cl = "personas" -> [dni |-> <<"b">>, nombre |-> e.nombre, apellidos |-> <<"b">>]
      [] OTHER ->
            [location_id |-> 1, street_type |-> e.tipo_via, street_name |-> e.nombre_via,
             number |-> e.numero]

\* (match_type, confidence in hundredths, prior appearances) of the matches of a report
TiposInforme ==
    { <<"EXACTO", 100, 3>>, <<"EXACTO", 100, 0>>, <<"PARCIAL", 95, 0>>, <<"PARCIAL", 88, 3>>,
      <<"PARCIAL", 60, 0>>, <<"SIN_COINCIDENCIA", 0, 0>>, <<"ERROR", 0, 0>> }

\* the same for the reports without text, with both thresholds of the annotator
TiposSinTexto ==
    { <<"EXACTO", 100, 3>>, <<"PARCIAL", 95, 0>>, <<"PARCIAL", 88, 3>>, <<"PARCIAL", 70, 0>>,
      <<"PARCIAL", 60, 0>>, <<"SIN_COINCIDENCIA", 0, 0>>, <<"ERROR", 0, 0>> }

MatchInforme(cl, e, k) ==
    IF k[1] = "SIN_COINCIDENCIA" THEN SinCoincidencia(e)
    ELSE IF k[1] = "ERROR" THEN MatchError(e, "_buscar")
    ELSE Match(e, k[1], Pct(k[2]), RegistroDe(cl, e), [apariciones_previas |-> k[3]])

MatchesInformeDe(cl, ents, tipos) == {MatchInforme(cl, e, k) : e \in ents, k \in tipos}

\* at most one vehicle and one person
MatchesConTexto ==
    [vehiculos : ListasDe(MatchesInformeDe("vehiculos", VehiculosInforme, TiposInforme)),
     personas : ListasDe(MatchesInformeDe("personas", PersonasInforme, TiposInforme)),
     ubicaciones : {<<>>}]

\* up to MaxSecciones matches of one entity per class
MatchesSinTexto ==
    LET V == MatchesInformeDe("vehiculos", {[matricula |-> <<"a">>, marca |-> <<"b">>, modelo |-> Vacia]},
                              TiposSinTexto)
        P == MatchesInformeDe("personas", {[dni |-> <<"b">>, nombre |-> <<"a">>, apellidos |-> Vacia]},
                              TiposSinTexto)
        U == MatchesInformeDe("ubicaciones", UbicacionesInforme, TiposSinTexto)
    IN  UNION { [vehiculos : [1..i -> V], personas : [1..j -> P], ubicaciones : [1..k -> U]] :
                   <<i, j, k>> \in {t \in (0..MaxSecciones) \X (0..MaxSecciones) \X (0..MaxSecciones) :
                                       t[1] + t[2] + t[3] <= MaxSecciones} }

InitInforme ==
    /\ pc = "anotar"
    /\ \/ texto \in TextosInforme /\ matches \in MatchesConTexto
       \/ texto = <<>> /\ matches \in MatchesSinTexto
    /\ candidatas = <<>>
    /\ marcas = <<>>
    /\ enriquecido = <<>>
    /\ explicacion = <<>>
    /\ metadata = <<>>
    /\ MatcherSinUso

SpecInforme == InitInforme /\ [][NextAnot]_vars

(***************************************************************************)
(* Properties of the annotation of a report                                *)
(***************************************************************************)
NombreCompleto(e) == ConEspacio(e.nombre, e.apellidos)

\* a PARCIAL person with confidence in [0.85, 0.95) whose full name is in the text
PersonaParcialNombrada(txt, m) ==
    /\ m.match_type = "PARCIAL"
    /\ m.confidence >= Pct(85)
    /\ m.confidence < Pct(THRESHOLD_EXACTO)
    /\ m.entidad_original.nombre # <<>>
    /\ m.entidad_original.apellidos # <<>>
    /\ Contiene(Lower(txt), Lower(NombreCompleto(m.entidad_original)))

\* C15: a PARCIAL person with confidence in [0.85, 0.95) whose given name and
\* family name stand in the text as one contiguous full name, the only match
\* of the report, gets one Weak marker over the whole full name: the enriched
\* text contains '**<given name> <family name>**'.
C15_NombreCompletoUnaMarca ==
    (pc = "anotado" /\ matches.vehiculos = <<>> /\ matches.ubicaciones = <<>>) =>
        \A i \in 1..Len(matches.personas) :
            LET m == matches.personas[i]
                completo == NombreCompleto(m.entidad_original)
            IN  PersonaParcialNombrada(texto, m) =>
                    /\ \E k \in 1..Len(marcas) :
                          /\ marcas[k].tipo = "**"
                          /\ Lower(Slice(texto, marcas[k].start, marcas[k].end)) = Lower(completo)
                    /\ \E p \in 0..Len(enriquecido) :
                          Lower(Slice(enriquecido, p, p + Len(completo) + 4))
                              = <<"*", "*">> \o Lower(completo) \o <<"*", "*">>

\* every occurrence of faceta in txt stands right after an '@'
PrefijadaConArroba(txt, faceta) ==
    \A p \in 0..(Len(txt) - Len(faceta)) :
        Lower(Slice(txt, p, p + Len(faceta))) = Lower(faceta) => (p > 0 /\ txt[p] = "@")

\* an EXACTO vehicle of confidence 1.0 whose plate, brand and model occur in the text
VehiculoExactoNombrado(txt, m) ==
    /\ m.match_type = "EXACTO"
    /\ m.confidence = Pct(100)
    /\ \A f \in {m.entidad_original.matricula, m.entidad_original.marca, m.entidad_original.modelo} :
          f # <<>> /\ Contiene(Lower(txt), Lower(f))

\* C16: for an EXACTO vehicle of confidence 1.0, the only match of the report,
\* whose plate, brand and model each occur in the text, every occurrence of
\* the plate, the brand and the model in the enriched text is prefixed with
\* '@', and when the enrichment reports n > 0 prior appearances the vehicle's
\* section of the explanation has a line stating n.
C16_VehiculoExactoArrobas ==
    (pc = "anotado" /\ Len(matches.vehiculos) = 1 /\ matches.personas = <<>>
     /\ matches.ubicaciones = <<>>) =>
        LET m == matches.vehiculos[1]
            e == m.entidad_original
            n == Get(m.enrichment, "apariciones_previas", 0)
        IN  VehiculoExactoNombrado(texto, m) =>
                /\ PrefijadaConArroba(enriquecido, e.matricula)
                /\ PrefijadaConArroba(enriquecido, e.marca)
                /\ PrefijadaConArroba(enriquecido, e.modelo)
                /\ n > 0 => \E k \in 1..Len(explicacion[2]) :
                                /\ explicacion[2][k].clave = "actuacions previes"
                                /\ explicacion[2][k].valor = n

\* the matches of the report with their class
MatchesConClase ==
    {<<"vehiculos", matches.vehiculos[i]>> : i \in 1..Len(matches.vehiculos)}
    \cup {<<"personas", matches.personas[i]>> : i \in 1..Len(matches.personas)}
    \cup {<<"ubicaciones", matches.ubicaciones[i]>> : i \in 1..Len(matches.ubicaciones)}

\* the facet of the natural key of an entity
ClaveNatural(cl, e) ==
    CASE cl = "vehiculos" -> e.matricula
      [] cl = "personas" -> e.dni
      [] OTHER -> IF e.texto_completo # <<>> THEN e.texto_completo ELSE e.nombre_via

\* the secondary descriptive facets of the claim: brand, model, given name, family name
Secundarias(cl, e) ==
    CASE cl = "vehiculos" -> {e.marca, e.modelo}
      [] cl = "personas" -> {e.nombre, e.apellidos}
      [] OTHER -> {}

Aceptado(m) ==
    /\ m.match_type \in {"EXACTO", "PARCIAL"}
    /\ m.confidence >= Pct(THRESHOLD_PARCIAL)

Estilo(m) == IF m.confidence >= Pct(THRESHOLD_EXACTO) THEN "@" ELSE "**"

\* marker c is one the stated rule lets match m of class cl produce
SegunRegla(cl, m, c) ==
    /\ Aceptado(m)
    /\ \/ c.texto = ClaveNatural(cl, m.entidad_original) /\ c.tipo = Estilo(m)
       \/ /\ c.texto \in Secundarias(cl, m.entidad_original)
          /\ m.confidence >= Pct(THRESHOLD_EXACTO)
          /\ c.tipo = "@"

\* the same with a person's names marked at any accepted confidence
SegunReglaNombres(cl, m, c) ==
    \/ SegunRegla(cl, m, c)
    \/ /\ Aceptado(m)
       /\ cl = "personas"
       /\ c.texto \in Secundarias(cl, m.entidad_original)
       /\ c.tipo = Estilo(m)

\* C17 as stated: every candidate marker comes from an EXACTO or PARCIAL match
\* of confidence >= 0.70, as a natural-key marker that is Strong iff the
\* confidence is >= 0.95, or as a marker of a brand, model, given name or
\* family name of a match of confidence >= 0.95.
C17_SecundariasSoloExactas ==
    pc = "anotado" =>
        \A k \in 1..Len(candidatas) :
            \E cm \in MatchesConClase : SegunRegla(cm[1], cm[2], candidatas[k])

\* C17 amended: every candidate marker comes from an EXACTO or PARCIAL match
\* of confidence >= 0.70, as a natural-key marker that is Strong iff the
\* confidence is >= 0.95, as a marker of a vehicle's brand or model of a
\* match of confidence >= 0.95, or as a marker of a person's given name or
\* family name with the style of the natural key; SIN_COINCIDENCIA and ERROR
\* matches produce no marker.
C17_ReglaDeMarcas ==
    pc = "anotado" =>
        /\ \A k \in 1..Len(candidatas) :
              \E cm \in MatchesConClase : SegunReglaNombres(cm[1], cm[2], candidatas[k])
        /\ (\A cm \in MatchesConClase : cm[2].match_type \in {"SIN_COINCIDENCIA", "ERROR"})
              => candidatas = <<>>

\* a PARCIAL 0.88 person, alone in the report, whose given name got a Weak marker
C17_Witness ==
    /\ pc = "anotado"
    /\ matches.vehiculos = <<>>
    /\ Len(matches.personas) = 1
    /\ matches.personas[1].match_type = "PARCIAL"
    /\ matches.personas[1].confidence = Pct(88)
    /\ \E k \in 1..Len(candidatas) :
          /\ candidatas[k].texto = matches.personas[1].entidad_original.nombre
          /\ candidatas[k].tipo = "**"

\* the matches of the report, vehicles, then persons, then locations, each
\* group in input order, with their class
EnOrden ==
    [i \in 1..Len(matches.vehiculos) |-> <<"vehiculos", matches.vehiculos[i]>>]
    \o [i \in 1..Len(matches.personas) |-> <<"personas", matches.personas[i]>>]
    \o [i \in 1..Len(matches.ubicaciones) |-> <<"ubicaciones", matches.ubicaciones[i]>>]

ConSeccion == SelectSeq(EnOrden, LAMBDA cm : cm[2].match_type # "SIN_COINCIDENCIA")

\* the titles a section of a class can open with
TitulosDe(cl) ==
    CASE cl = "vehiculos" -> {"VEHICLE MATRICULA"}
      [] cl = "personas" -> {"PERSONA", "PERSONA (dni)"}
      [] OTHER -> {"UBICACIO"}

\* seccion is the section of match m of class cl: the title of the class and
\* the match-type line of m
SeccionDe(seccion, cl, m) ==
    /\ seccion[1].clave \in TitulosDe(cl)
    /\ m.match_type = "EXACTO" => seccion[2].clave = "Coincidencia EXACTA"
    /\ m.match_type = "PARCIAL" =>
          /\ seccion[2].clave = "Coincidencia PARCIAL"
          /\ seccion[2].valor = PorCiento(m.confidence)
    /\ m.match_type = "ERROR" =>
          \A k \in 1..Len(seccion) :
              seccion[k].clave \notin {"Coincidencia EXACTA", "Coincidencia PARCIAL"}

EsFraseSinCoincidencias(seccion) == seccion[1].clave = SinCoincidencias[1].clave

\* C18: after the header the explanation has exactly one section for every
\* match whose match_type is not SIN_COINCIDENCIA (ERROR included), vehicles
\* first, then persons, then locations, each group in input order, and the
\* 'no matches found' sentence is there iff no section was produced.
C18_UnaSeccionPorMatch ==
    pc = "anotado" =>
        /\ explicacion[1] = Cabecera
        /\ IF ConSeccion = <<>>
           THEN Len(explicacion) = 2 /\ EsFraseSinCoincidencias(explicacion[2])
           ELSE /\ Len(explicacion) = 1 + Len(ConSeccion)
                /\ \A k \in 1..Len(ConSeccion) :
                      /\ SeccionDe(explicacion[k + 1], ConSeccion[k][1], ConSeccion[k][2])
                      /\ ~EsFraseSinCoincidencias(explicacion[k + 1])

\* an ERROR person between an EXACTO vehicle and a PARCIAL location
C18_Witness ==
    /\ pc = "anotado"
    /\ Len(explicacion) = 4
    /\ Len(matches.vehiculos) = 1 /\ matches.vehiculos[1].match_type = "EXACTO"
    /\ Len(matches.personas) = 1 /\ matches.personas[1].match_type = "ERROR"
    /\ Len(matches.ubicaciones) = 1 /\ matches.ubicaciones[1].match_type = "PARCIAL"

\* how many matches of the report satisfy P
Cuantos(P(_)) == Cardinality({k \in 1..Len(EnOrden) : P(EnOrden[k][2])})

EfectivamenteExacta(m) ==
    \/ m.match_type = "EXACTO"
    \/ m.match_type = "PARCIAL" /\ m.confidence >= Pct(95)

EfectivamenteParcial(m) ==
    /\ m.match_type = "PARCIAL"
    /\ Pct(70) <= m.confidence
    /\ m.confidence < Pct(95)

SinMatchOError(m) == ~EfectivamenteExacta(m) /\ ~EfectivamenteParcial(m)

\* C19: entidades_exactas counts the EXACTO matches and the PARCIAL ones of
\* confidence >= 0.95, entidades_parciales the PARCIAL ones with
\* 0.70 <= confidence < 0.95, entidades_sin_match every other match (ERROR
\* included), so the three counters sum to the number of matches of the
\* three lists.
C19_ContadoresParticionan ==
    pc = "anotado" =>
        /\ metadata.entidades_exactas = Cuantos(EfectivamenteExacta)
        /\ metadata.entidades_parciales = Cuantos(EfectivamenteParcial)
        /\ metadata.entidades_sin_match = Cuantos(SinMatchOError)
        /\ metadata.entidades_exactas + metadata.entidades_parciales + metadata.entidades_sin_match
              = Len(matches.vehiculos) + Len(matches.personas) + Len(matches.ubicaciones)

\* a PARCIAL vehicle at 0.95, a PARCIAL person at 0.70 and an ERROR location:
\* one match in each counter
C19_Witness ==
    /\ pc = "anotado"
    /\ Len(matches.vehiculos) = 1 /\ matches.vehiculos[1].match_type = "PARCIAL"
    /\ matches.vehiculos[1].confidence = Pct(95)
    /\ Len(matches.personas) = 1 /\ matches.personas[1].match_type = "PARCIAL"
    /\ matches.personas[1].confidence = Pct(70)
    /\ Len(matches.ubicaciones) = 1 /\ matches.ubicaciones[1].match_type = "ERROR"
    /\ metadata.entidades_exactas = 1
    /\ metadata.entidades_parciales = 1
    /\ metadata.entidades_sin_match = 1

(***************************************************************************)
(* Orchestrator: POST /api/v1/enrich.  The extractor is the language       *)
(* model followed by the position search of entity_extractor; what the     *)
(* language model returns is an input of the request.                      *)
(***************************************************************************)
HttpError(status, detail) == [status |-> status, detail |-> detail]

\* EnrichResponse(...)
EnrichResponse(texto_drag, anotaciones, matches_dict) ==
    [status |-> 200, texto_original |-> texto_drag, texto_drag |-> texto_drag,
     anotaciones |-> anotaciones, matches |-> matches_dict]

\* buscar_posicion_entidad(texto_completo, entidad_valor, tipo)
BuscarPosicionEntidad(texto_completo, entidad_valor) ==
    LET texto_upper == Strip(Upper(texto_completo))
        entidad_upper == Strip(Upper(entidad_valor))
        pos == Find(texto_upper, entidad_upper, 0)
    IN  IF pos = -1 THEN Null
        ELSE [start |-> pos, end |-> pos + Len(entidad_valor),
              texto_original |-> Slice(texto_completo, pos, pos + Len(entidad_valor))]

\* the text whose position is searched for an entity; Vacia: none
TextoDePosicion(cl, e) ==
    CASE cl = "vehiculos" -> e.matricula
      [] cl = "personas" ->
            IF e.dni # <<>> THEN e.dni ELSE Strip(ConEspacio(e.nombre, e.apellidos))
      [] OTHER -> e.texto_completo

\* the entities anadir_posiciones_* keeps: vehicles with a plate, every person,
\* locations with texto_completo
ConservadaPorExtractor(cl, e) ==
    CASE cl = "vehiculos" -> e.matricula # <<>>
      [] cl = "personas" -> TRUE
      [] OTHER -> e.texto_completo # <<>>

\* {**entidad, "position": posicion}
ConPosicion(txt, cl, e) ==
    e @@ [position |-> IF TextoDePosicion(cl, e) = <<>> THEN Null
                       ELSE BuscarPosicionEntidad(txt, TextoDePosicion(cl, e))]

\* contrastar_entidades on the list of one class with no failing query, with
\* entidad_original the entity as the extractor returned it
MatchesEnrich(txt, cl, crudas) ==
    LET ents == SelectSeq(crudas, LAMBDA e : ConservadaPorExtractor(cl, e))
    IN  [i \in 1..Len(ents) |->
            LET r == MatchSingle(cl, ents[i], SinFallo)
            IN  IF r.excepcion THEN MatchError(ConPosicion(txt, cl, ents[i]), r.razon)
                ELSE [r.valor EXCEPT !.entidad_original = ConPosicion(txt, cl, ents[i])]]

\* the dataclass instance anotar_texto returns
AnnotationResult(texto_enriquecido, explicacion_db, md) ==
    [tipo_py |-> "AnnotationResult", texto_enriquecido |-> texto_enriquecido,
     explicacion_db |-> explicacion_db, metadata |-> md]

\* obj[key]: only a dict is subscriptable
GetItem(obj, key) ==
    IF obj.tipo_py # "dict" THEN Lanza("TypeError")
    ELSE IF key \notin DOMAIN obj THEN Lanza("KeyError")
    ELSE Devuelve(obj[key])

\* the report texts of the requests
TextosEnrich ==
    { <<>>, <<" ">>,
      <<"1", "2", "a", "b", "x", " ", "9", "x">>,
      <<" ", "x", " ", "1", "2", "A", "B", "X">>,
      <<"J", "o", "a", "n", " ", "M", "a", "r", "t", "i">> }

\* what the language model can extract: at most one entity of each class
Extracciones ==
    [vehiculos : ListasDe(VehiculosEnt), personas : ListasDe(PersonasEnt),
     ubicaciones : ListasDe(UbicacionesEnt)]

InitEnrich ==
    /\ pc = "enrich"
    /\ texto \in TextosEnrich
    /\ matches = SinMatches
    /\ candidatas = <<>>
    /\ marcas = <<>>
    /\ enriquecido = <<>>
    /\ explicacion = <<>>
    /\ metadata = <<>>
    /\ MatcherSinUso

\* the steps of enrich_report after the extractor returned `crudas`
Enriquecer(texto_drag, crudas) ==
    \E matches_dict \in {[cl \in Clases |-> MatchesEnrich(texto_drag, cl, crudas[cl])]} :
    \E cs \in {MarcasCandidatas(texto_drag, matches_dict)} :
    \E ms \in {OrdenarPorInicio(ResolverSolapamientos(cs))} :
    \E resultado_anotacion \in {AnnotationResult(AplicarMarcas(texto_drag, ms),
                                                 GenerarExplicacion(matches_dict),
                                                 GenerarMetadata(matches_dict))} :
    \E anotaciones \in {GetItem(resultado_anotacion, "anotaciones")} :
        /\ matches' = matches_dict
        /\ candidatas' = cs
        /\ marcas' = ms
        /\ enriquecido' = resultado_anotacion.texto_enriquecido
        /\ explicacion' = resultado_anotacion.explicacion_db
        /\ metadata' = resultado_anotacion.metadata
        /\ respuesta' = IF anotaciones.excepcion THEN HttpError(500, anotaciones.razon)
                        ELSE EnrichResponse(texto_drag, anotaciones.valor, matches_dict)

\* enrich_report(request)
EnrichReport ==
    /\ pc = "enrich"
    /\ pc' = "respondido"
    /\ \E servicios \in BOOLEAN :
          LET texto_drag == Strip(texto)
          IN  IF ~servicios
              THEN respuesta' = HttpError(503, "no disponible") /\ UNCHANGED <<matches, candidatas, marcas, enriquecido, explicacion, metadata>>
              ELSE IF texto_drag = <<>>
              THEN respuesta' = HttpError(400, "texto_vago") /\ UNCHANGED <<matches, candidatas, marcas, enriquecido, explicacion, metadata>>
              ELSE \/ respuesta' = HttpError(500, "extract_entities_claude")
                      /\ UNCHANGED <<matches, candidatas, marcas, enriquecido, explicacion, metadata>>
                   \/ \E crudas \in Extracciones : Enriquecer(texto_drag, crudas)
    /\ UNCHANGED <<texto, clase, entidades, fallos, resultados, estado, consultas, varsExpl, varsFn>>

NextEnrich == EnrichReport

SpecEnrich == InitEnrich /\ [][NextEnrich]_vars

(***************************************************************************)
(* Properties of the enrich flow                                           *)
(***************************************************************************)
\* the matches of the response that carry an offset, with their Mode B identifier
ConOffset ==
    {<<pre, i>> \in {"v", "p", "u"} \X (1..MaxLote) :
        LET ms == matches[CASE pre = "v" -> "vehiculos" [] pre = "p" -> "personas"
                            [] OTHER -> "ubicaciones"]
        IN  i <= Len(ms) /\ ms[i].entidad_original.position # Null}

\* anots is the Mode B list: one annotation per match with an offset, named
\* 'v<i>', 'p<i>', 'u<i>' with i counted from 0, in ascending start
ListaModoB(anots) ==
    /\ Len(anots) = Cardinality(ConOffset)
    /\ \A k \in 1..(Len(anots) - 1) : anots[k].start <= anots[k + 1].start
    /\ \A pi \in ConOffset : \E k \in 1..Len(anots) : anots[k].id = <<pi[1], pi[2] - 1>>

\* C20: a request the extractor answered with an entity that has an offset
\* gets the 200 response whose
\* 'anotaciones' is the offset-indexed list of the annotator: one annotation
\* per match with an offset, matches without offset skipped, identifiers
\* 'v<i>', 'p<i>', 'u<i>', sorted by ascending start.
C20_AnotacionesDelAnotador ==
    (/\ pc = "respondido"
     /\ ConOffset # {}
     /\ respuesta.status \notin {400, 503}
     /\ ~(respuesta.status = 500 /\ respuesta.detail = "extract_entities_claude")) =>
        /\ respuesta.status = 200
        /\ ListaModoB(respuesta.anotaciones)

(***************************************************************************)
(* Reference data gateway: every operation the core issues is one SQL      *)
(* statement run inside `with sqlite3.connect(...)` (matcher) or on the     *)
(* connection of HermanoMayorDB (explainer).                               *)
(***************************************************************************)
MaxConsultas == 2

\* the gateway operations of the explainer
ConsultasExplainer == {"get_vehicle_history", "get_person_history"}

\* every gateway operation of contrastar_entidades and generar_explicaciones;
\* anotar_texto issues none
Operaciones == UNION {ConsultasDe(cl) : cl \in Clases} \cup ConsultasExplainer

\* the verb of the statement with every operation written as an UPDATE of the history
SentenciaEscribeHistorial(op) == IF op \in ConsultasExplainer THEN "UPDATE" ELSE "SELECT"

\* the verb of the SQL statement of a gateway operation
Sentencia(op) == "SELECT"

\* the table after FROM in the statement of a gateway operation
TablaDeOperacion(op) ==
    CASE op \in {"_buscar_vehiculo_exacto", "_buscar_vehiculo_fuzzy"} -> "vehicles"
      [] op \in {"_get_persona_by_dni", "_buscar_persona_by_dni", "_buscar_persona_by_nombre"} -> "persons"
      [] op \in {"_count_vehicle_appearances", "_get_vehicle_events", "_count_person_appearances",
                 "_count_location_appearances"} -> "entity_links"
      [] op \in {"_get_vehicle_drivers", "_get_person_vehicles"} -> "vehicle_person_links"
      [] op = "_get_person_roles" -> "person_roles"
      [] op \in {"_buscar_ubicacion_exacta", "_buscar_ubicacion_fuzzy"} -> "locations"
      [] op \in {"_buscar_ubicacion_alias", "_get_location_aliases"} -> "location_aliases"
      [] op = "_get_location_event_types" -> "events_drag"
      [] op = "get_vehicle_history" -> "historial"
      [] OTHER -> "historial_personas"

\* the store after the statement of op ran; a statement that raises leaves no change
Ejecutar(op, falla, a) ==
    IF falla \/ Sentencia(op) = "SELECT" THEN a
    ELSE [a EXCEPT ![TablaDeOperacion(op)] = <<>>]

InitGateway ==
    /\ pc = "gateway"
    /\ AnotadorSinUso
    /\ clase = "ninguna"
    /\ entidades = <<>>
    /\ fallos = <<>>
    /\ resultados = <<>>
    /\ estado = "Start"
    /\ consultas = <<>>

\* one gateway operation issued by contrastar_entidades, which may raise
OperacionMatcher ==
    /\ pc = "gateway"
    /\ Len(consultas) < MaxConsultas
    /\ \E cl \in Clases, falla \in BOOLEAN :
          \E op \in ConsultasDe(cl) :
              /\ almacen' = Ejecutar(op, falla, almacen)
              /\ consultas' = Append(consultas, [op |-> op, falla |-> falla])
    /\ UNCHANGED <<pc, varsAnot, clase, entidades, fallos, resultados, estado, respuesta, ahora, informes, varsFn>>

\* one gateway operation issued by generar_explicaciones, which may raise
OperacionExplainer ==
    /\ pc = "gateway"
    /\ Len(consultas) < MaxConsultas
    /\ \E op \in ConsultasExplainer, falla \in BOOLEAN :
          /\ almacen' = Ejecutar(op, falla, almacen)
          /\ consultas' = Append(consultas, [op |-> op, falla |-> falla])
    /\ UNCHANGED <<pc, varsAnot, clase, entidades, fallos, resultados, estado, respuesta, ahora, informes, varsFn>>

\* a call of anotar_texto: no gateway operation
AnotarSinGateway ==
    /\ pc = "gateway"
    /\ Len(consultas) < MaxConsultas
    /\ consultas' = Append(consultas, [op |-> "anotar_texto", falla |-> FALSE])
    /\ UNCHANGED <<pc, varsAnot, clase, entidades, fallos, resultados, estado, respuesta, varsExpl, varsFn>>

NextGateway == OperacionMatcher \/ OperacionExplainer \/ AnotarSinGateway

SpecGateway == InitGateway /\ [][NextGateway]_vars

FuzzRatioBasic(s1, s2) == Similitud(s1, s2)

CadenasRatio == Cadenas({"a", "A", "b"}, MaxTextLen)

\* no request to the annotator, the matcher, the orchestrator or the explainer
ServiciosSinUso ==
    /\ texto = <<>>
    /\ matches = SinMatches
    /\ candidatas = <<>>
    /\ marcas = <<>>
    /\ enriquecido = <<>>
    /\ explicacion = <<>>
    /\ metadata = <<>>
    /\ clase = "ninguna"
    /\ entidades = <<>>
    /\ fallos = <<>>
    /\ resultados = <<>>
    /\ estado = "Start"
    /\ consultas = <<>>
    /\ respuesta = SinRespuesta
    /\ ExplainerSinUso

InitRatio ==
    /\ pc = "ratio"
    /\ args \in CadenasRatio \X CadenasRatio
    /\ retorno = Null
    /\ ServiciosSinUso

LlamarRatio ==
    /\ pc = "ratio"
    /\ retorno' = FuzzRatioBasic(args[1], args[2])
    /\ pc' = "retornado"
    /\ UNCHANGED <<args, varsAnot, varsMatch, respuesta, varsExpl>>

NextRatio == LlamarRatio

SpecRatio == InitRatio /\ [][NextRatio]_vars

\* C22: ratio(a, a) = 100, ratio('', '') = 100, ratio(a, '') = 0 for a
\* non-empty a, ratio(a, b) = ratio(b, a) and 0 <= ratio(a, b) <= 100.
C22_PropiedadesDelRatio ==
    pc = "retornado" =>
        /\ args[1] = args[2] => retorno = LenLcm
        /\ (args[1] # <<>> /\ args[2] = <<>>) => retorno = 0
        /\ retorno = FuzzRatioBasic(args[2], args[1])
        /\ 0 <= retorno /\ retorno <= LenLcm

(***************************************************************************)
(* db_explainer: structured explanations with the history timeline         *)
(***************************************************************************)
\* an Optional[int]: None or a number
Ninguno == [hay |-> FALSE, valor |-> 0]
Algun(v) == [hay |-> TRUE, valor |-> v]

\* the risk level with the recency test of the first rule reversed
CalcularNivelRiesgoRecienteAlReves(num_actuaciones, dias_ultima) ==
    IF num_actuaciones = 0 THEN "BAJO"
    ELSE IF num_actuaciones >= 5 \/ dias_ultima >= 30 THEN "ALTO"
    ELSE IF num_actuaciones >= 2 \/ dias_ultima <= 90 THEN "MEDIO"
    ELSE "BAJO"

\* calcular_nivel_riesgo(num_actuaciones, dias_ultima)
CalcularNivelRiesgo(num_actuaciones, dias_ultima) ==
    IF num_actuaciones = 0 THEN "BAJO"
    ELSE IF num_actuaciones >= 5 \/ dias_ultima <= 30 THEN "ALTO"
    ELSE IF num_actuaciones >= 2 \/ dias_ultima <= 90 THEN "MEDIO"
    ELSE "BAJO"

\* HermanoMayorDB.get_vehicle_history(plate): ... WHERE matricula = ? ORDER BY fecha DESC
GetVehicleHistory(a, plate) ==
    LET filas == SelectSeq(a.historial, LAMBDA r : r.matricula = plate)
    IN  OrdenDesc([i \in 1..Len(filas) |->
                      <<filas[i].fecha,
                        [fecha |-> filas[i].fecha, tipo_actuacion |-> filas[i].tipo_actuacion,
                         agente_tip |-> filas[i].agente_tip, ubicacion |-> filas[i].ubicacion]>>])

\* HermanoMayorDB.get_person_history(dni): ... WHERE dni = ? ORDER BY fecha DESC
GetPersonHistory(a, dni) ==
    LET filas == SelectSeq(a.historial_personas, LAMBDA r : r.dni = dni)
    IN  OrdenDesc([i \in 1..Len(filas) |->
                      <<filas[i].fecha,
                        [fecha |-> filas[i].fecha, tipo_actuacion |-> filas[i].tipo_actuacion,
                         rol |-> filas[i].rol, ubicacion |-> filas[i].ubicacion]>>])

\* dias_ultima: 999 unless the first fecha parses, then (datetime.now() - fecha_ultima).days
DiasUltima(historial, hoy) ==
    IF historial = <<>> \/ historial[1].fecha = FechaVacia THEN 999
    ELSE hoy - historial[1].fecha

\* the "indicadores" of both explicar_* functions
Indicadores(historial, hoy) ==
    LET total_actuaciones == Len(historial)
        dias_ultima == DiasUltima(historial, hoy)
    IN  [total_actuaciones |-> total_actuaciones,
         ultima_actuacion_dias |-> IF dias_ultima < 999 THEN Algun(dias_ultima) ELSE Ninguno,
         riesgo |-> CalcularNivelRiesgo(total_actuaciones, dias_ultima)]

\* explicar_vehiculo(match, db_adapter) on day hoy; filas is what
\* get_vehicle_history did: Lanza(...) or Devuelve(rows)
ExplicarVehiculoDb(m, filas, hoy) ==
    LET entidad == Get(m, "entidad_original", <<>>)
        matricula == Get(entidad, "matricula", Vacia)
        db_data == Get(m, "db_data", <<>>)
        crudo == IF filas.excepcion THEN <<>>
                 ELSE [i \in 1..Len(filas.valor) |->
                          <<filas.valor[i].fecha,
                            [fecha |-> filas.valor[i].fecha, actuacion |-> filas.valor[i].tipo_actuacion,
                             agente |-> filas.valor[i].agente_tip, ubicacion |-> filas.valor[i].ubicacion]>>]
        historial == OrdenDesc(crudo)
    IN  [entity |-> matricula, tipo |-> "VEHICULO", confianza |-> Get(m, "confidence", 0),
         datos_actuales |-> [marca |-> Get(db_data, "marca", "Desconocida"),
                             modelo |-> Get(db_data, "modelo", "Desconocido"),
                             titular |-> Get(db_data, "titular", "Desconocido"),
                             dni_titular |-> Get(db_data, "dni_titular", Vacia)],
         historial |-> historial, indicadores |-> Indicadores(historial, hoy)]

\* explicar_persona(match, db_adapter) on day hoy
ExplicarPersonaDb(m, filas, hoy) ==
    LET entidad == Get(m, "entidad_original", <<>>)
        dni == Get(entidad, "dni", Vacia)
        db_data == Get(m, "db_data", <<>>)
        crudo == IF filas.excepcion THEN <<>>
                 ELSE [i \in 1..Len(filas.valor) |->
                          <<filas.valor[i].fecha,
                            [fecha |-> filas.valor[i].fecha, actuacion |-> filas.valor[i].tipo_actuacion,
                             rol |-> filas.valor[i].rol, ubicacion |-> filas.valor[i].ubicacion]>>]
        historial == OrdenDesc(crudo)
    IN  [entity |-> dni, tipo |-> "PERSONA", confianza |-> Get(m, "confidence", 0),
         datos_actuales |-> [nombre |-> Get(db_data, "nombre", Vacia),
                             apellidos |-> Get(db_data, "apellidos", Vacia),
                             fecha_nacimiento |-> Get(db_data, "fecha_nacimiento", Vacia),
                             direccion |-> Get(db_data, "direccion", Vacia)],
         historial |-> historial, indicadores |-> Indicadores(historial, hoy)]

\* generar_explicaciones(matches, db_adapter) on day hoy; falla tells whether
\* the history queries raise
GenerarExplicaciones(mm, falla, a, hoy) ==
    LET vs == SelectSeq(Get(mm, "vehiculos", <<>>),
                        LAMBDA m : Get(m, "match_type", Null) \in {"exact", "partial"})
        ps == SelectSeq(Get(mm, "personas", <<>>),
                        LAMBDA m : Get(m, "match_type", Null) \in {"exact", "partial"})
    IN  [i \in 1..Len(vs) |->
            ExplicarVehiculoDb(vs[i],
                IF falla THEN Lanza("get_vehicle_history")
                ELSE Devuelve(GetVehicleHistory(a, vs[i].entidad_original.matricula)), hoy)]
        \o
        [i \in 1..Len(ps) |->
            ExplicarPersonaDb(ps[i],
                IF falla THEN Lanza("get_person_history")
                ELSE Devuelve(GetPersonHistory(a, ps[i].entidad_original.dni)), hoy)]

\* the days of the clock and the number of recorded invocations
DiaInicial == 5
MaxDias == 2
MaxInformes == 2

\* matches_to_dict of contrastar_entidades for at most one vehicle and one person
MatchesExplainer ==
    {[vehiculos |-> [i \in 1..Len(vs) |-> MatchSingle("vehiculos", vs[i], SinFallo).valor],
      personas |-> [i \in 1..Len(ps) |-> MatchSingle("personas", ps[i], SinFallo).valor],
      ubicaciones |-> <<>>] : vs \in ListasDe(VehiculosEnt), ps \in ListasDe(PersonasEnt)}

InitExplicar ==
    /\ pc = "explain"
    /\ matches \in MatchesExplainer
    /\ texto = <<>>
    /\ candidatas = <<>>
    /\ marcas = <<>>
    /\ enriquecido = <<>>
    /\ explicacion = <<>>
    /\ metadata = <<>>
    /\ clase = "ninguna"
    /\ entidades = <<>>
    /\ fallos = <<>>
    /\ resultados = <<>>
    /\ estado = "Start"
    /\ consultas = <<>>
    /\ respuesta = SinRespuesta
    /\ almacen = AlmacenInicial
    /\ ahora = DiaInicial
    /\ informes = <<>>
    /\ FuncionSinUso

\* datetime.now() moves on between two requests
PasaUnDia ==
    /\ pc = "explain"
    /\ ahora < DiaInicial + MaxDias
    /\ ahora' = ahora + 1
    /\ UNCHANGED <<pc, varsAnot, varsMatch, respuesta, almacen, informes, varsFn>>

\* one call explicar_vehiculo(match, db_adapter)
LlamarExplicarVehiculo ==
    /\ pc = "explain"
    /\ Len(informes) < MaxInformes
    /\ \E i \in 1..Len(matches.vehiculos), falla \in BOOLEAN :
          \E filas \in {IF falla THEN Lanza("get_vehicle_history")
                        ELSE Devuelve(GetVehicleHistory(almacen,
                                 matches.vehiculos[i].entidad_original.matricula))} :
             informes' = Append(informes,
                 [fn |-> "explicar_vehiculo", match |-> matches.vehiculos[i], filas |-> filas,
                  resultado |-> ExplicarVehiculoDb(matches.vehiculos[i], filas, ahora)])
    /\ UNCHANGED <<pc, varsAnot, varsMatch, respuesta, almacen, ahora, varsFn>>

\* one call explicar_persona(match, db_adapter)
LlamarExplicarPersona ==
    /\ pc = "explain"
    /\ Len(informes) < MaxInformes
    /\ \E i \in 1..Len(matches.personas), falla \in BOOLEAN :
          \E filas \in {IF falla THEN Lanza("get_person_history")
                        ELSE Devuelve(GetPersonHistory(almacen,
                                 matches.personas[i].entidad_original.dni))} :
             informes' = Append(informes,
                 [fn |-> "explicar_persona", match |-> matches.personas[i], filas |-> filas,
                  resultado |-> ExplicarPersonaDb(matches.personas[i], filas, ahora)])
    /\ UNCHANGED <<pc, varsAnot, varsMatch, respuesta, almacen, ahora, varsFn>>

\* POST /explain with the matcher's output as request.matches
ExplainMatches ==
    /\ pc = "explain"
    /\ \E falla \in BOOLEAN :
          respuesta' = [status |-> 200,
                        explicaciones |-> GenerarExplicaciones(matches, falla, almacen, ahora)]
    /\ pc' = "explicado"
    /\ UNCHANGED <<varsAnot, varsMatch, varsExpl, varsFn>>

NextExplicar ==
    \/ PasaUnDia
    \/ LlamarExplicarVehiculo
    \/ LlamarExplicarPersona
    \/ ExplainMatches

SpecExplicar == InitExplicar /\ [][NextExplicar]_vars

\* C23: two invocations of explicar_vehiculo / explicar_persona with the same
\* match and the same history rows from the gateway return the same result,
\* whatever the day of the invocation
C23_ExplicacionDeterminista ==
    \A i, j \in 1..Len(informes) :
        (/\ informes[i].fn = informes[j].fn
         /\ informes[i].match = informes[j].match
         /\ informes[i].filas = informes[j].filas)
        => informes[i].resultado = informes[j].resultado

\* C25: every vehicle and person match the Matcher classified EXACTO or
\* PARCIAL has its explanation in the answer, vehicles first, in input order
C25_UnaExplicacionPorMatch ==
    pc = "explicado" =>
        LET vs == SelectSeq(matches.vehiculos, LAMBDA m : m.match_type \in {"EXACTO", "PARCIAL"})
            ps == SelectSeq(matches.personas, LAMBDA m : m.match_type \in {"EXACTO", "PARCIAL"})
            ex == respuesta.explicaciones
        IN  /\ Len(ex) = Len(vs) + Len(ps)
            /\ \A i \in 1..Len(vs) :
                  ex[i].tipo = "VEHICULO" /\ ex[i].entity = vs[i].entidad_original.matricula
            /\ \A i \in 1..Len(ps) :
                  /\ ex[Len(vs) + i].tipo = "PERSONA"
                  /\ ex[Len(vs) + i].entity = ps[i].entidad_original.dni

(***************************************************************************)
(* One step of _resolver_solapamientos: an accepted marker and a candidate *)
(***************************************************************************)
TextoResolver == [i \in 1..MaxTextLen |-> "a"]

MarcasResolver == {m \in MarcasSobre(TextoResolver) : m.start < m.end}

\* the candidate comes after the accepted marker in marcas_ordenadas
DespuesEnOrden(r, marca) ==
    \/ r.start < marca.start
    \/ r.start = marca.start /\ Longitud(r) <= Longitud(marca)

InitResolver ==
    /\ pc = "resolver"
    /\ args \in {<<r, marca>> \in MarcasResolver \X MarcasResolver : DespuesEnOrden(r, marca)}
    /\ retorno = Null
    /\ ServiciosSinUso

\* the iteration of the outer loop that meets candidate args[2] with resultado = [args[1]]
AceptarCandidata ==
    /\ pc = "resolver"
    /\ pc' = "retornado"
    /\ retorno' = Aceptar(<<args[1]>>, args[2])
    /\ UNCHANGED <<args, varsAnot, varsMatch, respuesta, varsExpl>>

NextResolver == AceptarCandidata

SpecResolver == InitResolver /\ [][NextResolver]_vars

\* C24: a candidate that overlaps an accepted marker of the same style is
\* dropped unless it is strictly shorter, and then the accepted marker is
\* evicted: exactly one of the two is in the result
C24_MismoEstiloUnaSobrevive ==
    (/\ pc = "retornado"
     /\ args[1].tipo = args[2].tipo
     /\ Solapan(args[2], args[1]))
    => retorno = IF Longitud(args[2]) < Longitud(args[1]) THEN <<args[2]>> ELSE <<args[1]>>

(***************************************************************************)
(* buscar_posicion_entidad as a function of the text and the entity value  *)
(***************************************************************************)
CadenasPosicion == Cadenas({" ", "a", "A", "b"}, MaxTextLen)

InitPosicion ==
    /\ pc = "posicion"
    /\ args \in CadenasPosicion \X CadenasPosicion
    /\ retorno = Null
    /\ ServiciosSinUso

\* buscar_posicion_entidad(texto_completo, entidad_valor, tipo)
LlamarBuscarPosicion ==
    /\ pc = "posicion"
    /\ pc' = "retornado"
    /\ retorno' = BuscarPosicionEntidad(args[1], args[2])
    /\ UNCHANGED <<args, varsAnot, varsMatch, respuesta, varsExpl>>

NextPosicion == LlamarBuscarPosicion

SpecPosicion == InitPosicion /\ [][NextPosicion]_vars

\* C26: a returned position lies inside the original text, is as long as the
\* value and covers the value case-insensitively; None is returned exactly
\* when the value does not occur in the text case-insensitively
C26_OffsetsDelExtractor ==
    pc = "retornado" =>
        /\ retorno # Null =>
              /\ 0 <= retorno.start
              /\ retorno.start <= retorno.end
              /\ retorno.end <= Len(args[1])
              /\ retorno.end - retorno.start = Len(args[2])
              /\ Upper(Slice(args[1], retorno.start, retorno.end)) = Upper(args[2])
        /\ retorno = Null <=> Find(Upper(args[1]), Upper(args[2]), 0) = -1

(***************************************************************************)
(* Properties across the matcher and the annotator                         *)
(***************************************************************************)
\* the Matcher's output for the lot, as the annotator receives it
ResultadosComoMatches == [SinMatches EXCEPT ![clase] = resultados]

\* C27: every EXACTO or PARCIAL Match of the Matcher has confidence >= 0.85
\* and is eligible for the annotator; entidades_sin_match counts exactly the
\* SIN_COINCIDENCIA and ERROR matches, and a match is counted as exact iff
\* its natural-key markers are Strong
C27_UmbralesCoherentes ==
    pc = "contrastado" =>
        /\ \A i \in Indices(resultados) :
              LET m == resultados[i]
              IN  /\ m.match_type \in {"EXACTO", "PARCIAL"} =>
                        m.confidence >= Pct(85) /\ Marcable(m)
                  /\ ContadorDe(m) = "entidades_exactas" <=> (Marcable(m) /\ TipoMarca(m) = "@")
        /\ GenerarMetadata(ResultadosComoMatches).entidades_sin_match
              = Cardinality({i \in Indices(resultados) :
                                resultados[i].match_type \in {"SIN_COINCIDENCIA", "ERROR"}})

C27_Witness ==
    /\ pc = "contrastado"
    /\ \E i, j \in Indices(resultados) :
          /\ resultados[i].match_type = "PARCIAL"
          /\ resultados[i].confidence < Pct(THRESHOLD_EXACTO)
          /\ resultados[j].match_type = "ERROR"

(***************************************************************************)
(* POST /api/v1/check-entities: entities that carry their natural key only *)
(***************************************************************************)
\* the plates and the national ids the regex extractor hands over
MatriculasCheck ==
    {<<"1", "2", "A", "B", "C">>, <<"1", "2", "-", "a", "b", "c">>, <<"1", "2", "A", "B", "X">>,
     <<"3", "4", "X", "Y">>, <<"1">>}

DnisCheck == {<<"1", "A">>, <<"1", "a", " ">>, <<"9", "X">>, <<"2">>}

\* the loop body of _match_<clase> for one entity
ProcesarDirecto(cl, entidad, fallo) ==
    LET r == MatchSingle(cl, entidad, fallo)
    IN  IF r.excepcion THEN MatchError(entidad, r.razon) ELSE r.valor

InitCheck ==
    /\ pc = "check"
    /\ args \in ListasDe(MatriculasCheck) \X ListasDe(DnisCheck)
    /\ fallos \in [vehiculos : FallosDe("vehiculos"), personas : FallosDe("personas")]
    /\ retorno = Null
    /\ texto = <<>>
    /\ matches = SinMatches
    /\ candidatas = <<>>
    /\ marcas = <<>>
    /\ enriquecido = <<>>
    /\ explicacion = <<>>
    /\ metadata = <<>>
    /\ clase = "ninguna"
    /\ entidades = <<>>
    /\ resultados = <<>>
    /\ estado = "Start"
    /\ consultas = <<>>
    /\ respuesta = SinRespuesta
    /\ ExplainerSinUso

\* check_entities(request): the entities are built with empty secondary
\* fields and contrasted; fallos names the query that raises in each class
CheckEntities ==
    /\ pc = "check"
    /\ pc' = "comprobado"
    /\ \E vs \in {[i \in 1..Len(args[1]) |->
                      [matricula |-> args[1][i], marca |-> Vacia, modelo |-> Vacia]]} :
       \E ps \in {[i \in 1..Len(args[2]) |->
                      [dni |-> args[2][i], nombre |-> Vacia, apellidos |-> Vacia]]} :
          /\ entidades' = [vehiculos |-> vs, personas |-> ps, ubicaciones |-> <<>>]
          /\ respuesta' =
                [status |-> 200,
                 vehiculos |-> [i \in 1..Len(vs) |->
                                   ProcesarDirecto("vehiculos", vs[i], fallos.vehiculos)],
                 personas |-> [i \in 1..Len(ps) |->
                                  ProcesarDirecto("personas", ps[i], fallos.personas)],
                 ubicaciones |-> <<>>]
    /\ UNCHANGED <<varsAnot, clase, fallos, resultados, estado, consultas, varsExpl, varsFn>>

NextCheck == CheckEntities

SpecCheck == InitCheck /\ [][NextCheck]_vars

\* a person whose DNI is not stored
DniSinFila(p) == BuscarPersonaByDni(p.dni) = Null

FilasDeLaVia(nombre_via) ==
    SelectSeq(TablaLocations, LAMBDA r : Upper(r.street_name) = Upper(nombre_via))

\* C29: a location Match that is EXACTO with confidence 1.0 has the entity's
\* street name (case-insensitively), the entity's number when one is supplied
\* and the entity's street type when one is supplied; with neither number nor
\* type it is the first stored row on that street
C29_ExactaPorCamposSuministrados ==
    (pc = "contrastado" /\ clase = "ubicaciones") =>
        \A i \in Indices(resultados) :
            (resultados[i].match_type = "EXACTO" /\ resultados[i].confidence = Pct(100)) =>
                LET tipo_via == Strip(entidades[i].tipo_via)
                    nombre_via == Strip(entidades[i].nombre_via)
                    numero == Strip(entidades[i].numero)
                    fila == resultados[i].db_record
                IN  /\ Upper(fila.street_name) = Upper(nombre_via)
                    /\ numero # <<>> => fila.number = numero
                    /\ tipo_via # <<>> => Upper(fila.street_type) = Upper(tipo_via)
                    /\ (numero = <<>> /\ tipo_via = <<>>) => fila = FilasDeLaVia(nombre_via)[1]

C29_Witness ==
    /\ pc = "contrastado"
    /\ clase = "ubicaciones"
    /\ \E i, j \in Indices(resultados) :
          /\ resultados[i].match_type = "EXACTO"
          /\ resultados[i].confidence = Pct(100)
          /\ Strip(entidades[i].numero) = <<>>
          /\ Strip(entidades[i].tipo_via) = <<>>
          /\ Len(FilasDeLaVia(Strip(entidades[i].nombre_via))) > 1
          /\ resultados[j].match_type = "EXACTO"
          /\ resultados[j].confidence = Pct(100)
          /\ Strip(entidades[j].numero) # <<>>
          /\ Strip(entidades[j].tipo_via) # <<>>

(***************************************************************************)
(* calcular_nivel_riesgo as a function of its two arguments                *)
(***************************************************************************)
MaxActuaciones == 6

\* days around the two thresholds, and the 999 of "no date"
DiasRiesgo == {0, 1, 29, 30, 31, 32, 89, 90, 91, 92, 365, 999}

InitRiesgo ==
    /\ pc = "riesgo"
    /\ args \in (0..MaxActuaciones) \X DiasRiesgo
    /\ retorno = Null
    /\ ServiciosSinUso

\* calcular_nivel_riesgo(num_actuaciones, dias_ultima)
LlamarCalcularNivelRiesgo ==
    /\ pc = "riesgo"
    /\ pc' = "retornado"
    /\ retorno' = CalcularNivelRiesgo(args[1], args[2])
    /\ UNCHANGED <<args, varsAnot, varsMatch, respuesta, varsExpl>>

NextRiesgo == LlamarCalcularNivelRiesgo

SpecRiesgo == InitRiesgo /\ [][NextRiesgo]_vars

\* BAJO < MEDIO < ALTO
RangoDeRiesgo(nivel) == CASE nivel = "BAJO" -> 0 [] nivel = "MEDIO" -> 1 [] nivel = "ALTO" -> 2

\* C30: calcular_nivel_riesgo returns BAJO, MEDIO or ALTO; BAJO when there are
\* no actuaciones; the level never decreases with more actuaciones and, from
\* one actuacion on, never decreases with fewer days since the last one
C30_RiesgoTotalYMonotono ==
    pc = "retornado" =>
        /\ retorno \in {"BAJO", "MEDIO", "ALTO"}
        /\ args[1] = 0 => retorno = "BAJO"
        /\ \A n \in args[1]..MaxActuaciones :
              RangoDeRiesgo(CalcularNivelRiesgo(n, args[2])) >= RangoDeRiesgo(retorno)
        /\ args[1] >= 1 =>
              \A d \in {x \in DiasRiesgo : x <= args[2]} :
                 RangoDeRiesgo(CalcularNivelRiesgo(args[1], d)) >= RangoDeRiesgo(retorno)

C30_Witness ==
    /\ pc = "retornado"
    /\ args = <<1, 91>>
    /\ retorno = "BAJO"
    /\ CalcularNivelRiesgo(1, 90) = "MEDIO"
    /\ CalcularNivelRiesgo(1, 30) = "ALTO"
    /\ CalcularNivelRiesgo(2, 91) = "MEDIO"
    /\ CalcularNivelRiesgo(5, 91) = "ALTO"

====
